---- MODULE Spec2Model ----
(***************************************************************************)
(* Model of the find-a-house ingestion and filtering pipeline:             *)
(*   core/filter.py      SearchFilter, FilterManager                       *)
(*   core/aggregator.py  ListingAggregator.fetch_all, process_new_listings *)
(*   core/database.py    Database.listing_exists, add_listing              *)
(*   main.py             RentalHunter.run_once                             *)
(*   scrapers/*.py       price and bedroom extraction, the three adapters  *)
(* Text is modelled as sequences of one-character strings, so substring    *)
(* tests, lower(), strip() and the regular expressions of the area check   *)
(* are computed character by character.                                    *)
(***************************************************************************)
EXTENDS Integers, Sequences, FiniteSets, TLC

(***************************************************************************)
(* Python str primitives used by core/filter.py                            *)
(***************************************************************************)
UpperAlphabet ==
    <<"A","B","C","D","E","F","G","H","I","J","K","L","M",
      "N","O","P","Q","R","S","T","U","V","W","X","Y","Z">>

LowerAlphabet ==
    <<"a","b","c","d","e","f","g","h","i","j","k","l","m",
      "n","o","p","q","r","s","t","u","v","w","x","y","z">>

Letters == {UpperAlphabet[i] : i \in 1..26} \cup {LowerAlphabet[i] : i \in 1..26}

Digits == {"0","1","2","3","4","5","6","7","8","9"}

\* \s of the re module and the characters str.strip() removes
Whitespace == {" ", "\t", "\n"}

\* \w of the re module
WordChars == Letters \cup Digits \cup {"_"}

LowerChar(c) ==
    IF \E i \in 1..26 : UpperAlphabet[i] = c
    THEN LowerAlphabet[CHOOSE i \in 1..26 : UpperAlphabet[i] = c]
    ELSE c

\* str.lower()
Lower(s) == [i \in 1..Len(s) |-> LowerChar(s[i])]

RECURSIVE LStrip(_)
LStrip(s) ==
    IF s # <<>> /\ Head(s) \in Whitespace THEN LStrip(Tail(s)) ELSE s

RECURSIVE RStrip(_)
RStrip(s) ==
    IF s # <<>> /\ s[Len(s)] \in Whitespace
    THEN RStrip(SubSeq(s, 1, Len(s) - 1))
    ELSE s

\* str.strip()
Strip(s) == RStrip(LStrip(s))

\* text[i..] starts with p (i is 1-based)
StartsWithAt(text, i, p) ==
    /\ i >= 1
    /\ i + Len(p) - 1 <= Len(text)
    /\ SubSeq(text, i, i + Len(p) - 1) = p

\* str.startswith
StartsWith(s, p) == StartsWithAt(s, 1, p)

\* the Python test "sub in s"
Contains(s, sub) == \E i \in 1..(Len(s) + 1) : StartsWithAt(s, i, sub)

\* str.replace(old, "") : every non-overlapping occurrence removed, left to right
RECURSIVE RemoveAll(_, _)
RemoveAll(s, old) ==
    IF old = <<>> \/ Len(s) < Len(old) THEN s
    ELSE IF StartsWith(s, old)
         THEN RemoveAll(SubSeq(s, Len(old) + 1, Len(s)), old)
         ELSE <<Head(s)>> \o RemoveAll(Tail(s), old)

\* " ".join(parts)
RECURSIVE JoinSpace(_)
JoinSpace(parts) ==
    IF parts = <<>> THEN <<>>
    ELSE IF Len(parts) = 1 THEN parts[1]
    ELSE parts[1] \o <<" ">> \o JoinSpace(Tail(parts))

\* [x.lower() for x in xs]
LowerAll(xs) == [i \in 1..Len(xs) |-> Lower(xs[i])]

\* \b of the re module at the position just before text[p]
WordBoundary(text, p) ==
    LET isWord(j) == j \in 1..Len(text) /\ text[j] \in WordChars
    IN  isWord(p - 1) # isWord(p)

dublin == <<"d","u","b","l","i","n">>

\* re.search(f"dublin\\s*{area_num}\\b", text), area_num free of metacharacters
SearchDublinNum(area_num, text) ==
    \E i \in 1..Len(text) : \E k \in 0..Len(text) :
        /\ StartsWithAt(text, i, dublin)
        /\ i + 6 + k - 1 <= Len(text)
        /\ \A j \in (i + 6)..(i + 6 + k - 1) : text[j] \in Whitespace
        /\ StartsWithAt(text, i + 6 + k, area_num)
        /\ WordBoundary(text, i + 6 + k + Len(area_num))

\* re.search(f"\\bd{area_num}\\b", text), area_num free of metacharacters
SearchDNum(area_num, text) ==
    \E i \in 1..Len(text) :
        /\ WordBoundary(text, i)
        /\ StartsWithAt(text, i, <<"d">> \o area_num)
        /\ WordBoundary(text, i + 1 + Len(area_num))

(***************************************************************************)
(* core/filter.py : MatchResult, SearchFilter                              *)
(***************************************************************************)
\* float("inf"), the default of max_price and max_beds
Infinity == 999999

\* MatchResult(matches, reason, search_name); a reason is the tuple of the
\* parts its f-string is built from, the empty tuple is the empty string
MatchResult(matches, reason, search_name) ==
    [matches |-> matches, reason |-> reason, search_name |-> search_name]

\* bool(MatchResult(...)): the dataclass defines neither __bool__ nor
\* __len__, so every instance is truthy
Truthy(result) == TRUE

\* SearchFilter.__init__
SearchFilter(search_config) ==
    [name             |-> search_config.name,
     active           |-> search_config.active,
     min_price        |-> search_config.min_price,
     max_price        |-> search_config.max_price,
     min_beds         |-> search_config.min_beds,
     max_beds         |-> search_config.max_beds,
     areas            |-> LowerAll(search_config.areas),
     property_types   |-> LowerAll(search_config.property_types),
     must_have        |-> LowerAll(search_config.must_have),
     nice_to_have     |-> LowerAll(search_config.nice_to_have),
     exclude_keywords |-> LowerAll(search_config.exclude_keywords)]

\* one iteration of the loop of _matches_any_area
AreaMatches(area, location_lower) ==
    \/ Contains(location_lower, area)
    \/ /\ StartsWith(area, dublin)
       /\ LET area_num == Strip(RemoveAll(area, dublin))
          IN  /\ area_num # <<>>
              /\ \/ SearchDublinNum(area_num, location_lower)
                 \/ SearchDNum(area_num, location_lower)

\* SearchFilter._matches_any_area
MatchesAnyArea(self, location_text) ==
    IF self.areas = <<>> THEN TRUE
    ELSE LET location_lower == Lower(location_text)
         IN  \E i \in 1..Len(self.areas) : AreaMatches(self.areas[i], location_lower)

\* faulty variant of FirstTrue: the loop stops one element early
FirstTrueSkipsLast(flags) ==
    IF \E i \in 1..(Len(flags) - 1) : flags[i]
    THEN CHOOSE i \in 1..(Len(flags) - 1) : flags[i] /\ \A j \in 1..(i - 1) : ~flags[j]
    ELSE 0

\* index of the first TRUE of a sequence of booleans, 0 when there is none:
\* the iteration at which a "for ...: if ...: return" loop returns
FirstTrue(flags) ==
    IF \E i \in 1..Len(flags) : flags[i]
    THEN CHOOSE i \in 1..Len(flags) : flags[i] /\ \A j \in 1..(i - 1) : ~flags[j]
    ELSE 0

\* location_text of SearchFilter.matches
LocationText(listing) ==
    Strip(Lower(listing.area) \o <<" ">> \o Lower(listing.address))

\* faulty variant of Matches: the exclude keywords are checked before the price
MatchesExcludeFirst(self, listing) ==
    LET price         == listing.price
        bedrooms      == listing.bedrooms
        area          == Lower(listing.area)
        address       == Lower(listing.address)
        property_type == Lower(listing.property_type)
        title         == Lower(listing.title)
        description   == Lower(listing.description)
        features      == LowerAll(listing.features)
        location_text == LocationText(listing)
        full_text     == title \o <<" ">> \o description
        feature_text  == JoinSpace(features) \o <<" ">> \o description
        excluded      == FirstTrue([i \in 1..Len(self.exclude_keywords) |->
                                        Contains(full_text, self.exclude_keywords[i])])
        missing       == FirstTrue([i \in 1..Len(self.must_have) |->
                                        ~Contains(feature_text, self.must_have[i])])
    IN  IF excluded # 0
        THEN MatchResult(FALSE, <<"contains excluded keyword",
                                  self.exclude_keywords[excluded]>>, "")
        ELSE IF price > 0 /\ price < self.min_price
        THEN MatchResult(FALSE, <<"price below minimum", price, self.min_price>>, "")
        ELSE IF price > 0 /\ price > self.max_price
        THEN MatchResult(FALSE, <<"price above maximum", price, self.max_price>>, "")
        ELSE IF bedrooms >= 0 /\ bedrooms < self.min_beds
        THEN MatchResult(FALSE, <<"beds below minimum", bedrooms, self.min_beds>>, "")
        ELSE IF bedrooms >= 0 /\ bedrooms > self.max_beds
        THEN MatchResult(FALSE, <<"beds above maximum", bedrooms, self.max_beds>>, "")
        ELSE IF self.areas # <<>> /\ ~MatchesAnyArea(self, location_text)
        THEN MatchResult(FALSE, <<"location not in target areas",
                                  IF area # <<>> THEN area ELSE address>>, "")
        ELSE IF /\ self.property_types # <<>>
                /\ property_type # <<>>
                /\ ~\E i \in 1..Len(self.property_types) :
                        Contains(property_type, self.property_types[i])
        THEN MatchResult(FALSE, <<"property type not in allowed types", property_type>>, "")
        ELSE IF excluded # 0
        THEN MatchResult(FALSE, <<"contains excluded keyword",
                                  self.exclude_keywords[excluded]>>, "")
        ELSE IF missing # 0
        THEN MatchResult(FALSE, <<"missing required feature",
                                  self.must_have[missing]>>, "")
        ELSE MatchResult(TRUE, <<>>, self.name)

\* faulty variant of Matches: a bedroom count of 0 is taken as unknown
MatchesStudioUnknown(self, listing) ==
    LET price         == listing.price
        bedrooms      == listing.bedrooms
        area          == Lower(listing.area)
        address       == Lower(listing.address)
        property_type == Lower(listing.property_type)
        title         == Lower(listing.title)
        description   == Lower(listing.description)
        features      == LowerAll(listing.features)
        location_text == LocationText(listing)
        full_text     == title \o <<" ">> \o description
        feature_text  == JoinSpace(features) \o <<" ">> \o description
        excluded      == FirstTrue([i \in 1..Len(self.exclude_keywords) |->
                                        Contains(full_text, self.exclude_keywords[i])])
        missing       == FirstTrue([i \in 1..Len(self.must_have) |->
                                        ~Contains(feature_text, self.must_have[i])])
    IN  IF price > 0 /\ price < self.min_price
        THEN MatchResult(FALSE, <<"price below minimum", price, self.min_price>>, "")
        ELSE IF price > 0 /\ price > self.max_price
        THEN MatchResult(FALSE, <<"price above maximum", price, self.max_price>>, "")
        ELSE IF bedrooms > 0 /\ bedrooms < self.min_beds
        THEN MatchResult(FALSE, <<"beds below minimum", bedrooms, self.min_beds>>, "")
        ELSE IF bedrooms > 0 /\ bedrooms > self.max_beds
        THEN MatchResult(FALSE, <<"beds above maximum", bedrooms, self.max_beds>>, "")
        ELSE IF self.areas # <<>> /\ ~MatchesAnyArea(self, location_text)
        THEN MatchResult(FALSE, <<"location not in target areas",
                                  IF area # <<>> THEN area ELSE address>>, "")
        ELSE IF /\ self.property_types # <<>>
                /\ property_type # <<>>
                /\ ~\E i \in 1..Len(self.property_types) :
                        Contains(property_type, self.property_types[i])
        THEN MatchResult(FALSE, <<"property type not in allowed types", property_type>>, "")
        ELSE IF excluded # 0
        THEN MatchResult(FALSE, <<"contains excluded keyword",
                                  self.exclude_keywords[excluded]>>, "")
        ELSE IF missing # 0
        THEN MatchResult(FALSE, <<"missing required feature",
                                  self.must_have[missing]>>, "")
        ELSE MatchResult(TRUE, <<>>, self.name)

\* SearchFilter.matches, the Listing branch
Matches(self, listing) ==
    LET price         == listing.price
        bedrooms      == listing.bedrooms
        area          == Lower(listing.area)
        address       == Lower(listing.address)
        property_type == Lower(listing.property_type)
        title         == Lower(listing.title)
        description   == Lower(listing.description)
        features      == LowerAll(listing.features)
        location_text == LocationText(listing)
        full_text     == title \o <<" ">> \o description
        feature_text  == JoinSpace(features) \o <<" ">> \o description
        excluded      == FirstTrue([i \in 1..Len(self.exclude_keywords) |->
                                        Contains(full_text, self.exclude_keywords[i])])
        missing       == FirstTrue([i \in 1..Len(self.must_have) |->
                                        ~Contains(feature_text, self.must_have[i])])
    IN  IF price > 0 /\ price < self.min_price
        THEN MatchResult(FALSE, <<"price below minimum", price, self.min_price>>, "")
        ELSE IF price > 0 /\ price > self.max_price
        THEN MatchResult(FALSE, <<"price above maximum", price, self.max_price>>, "")
        ELSE IF bedrooms >= 0 /\ bedrooms < self.min_beds
        THEN MatchResult(FALSE, <<"beds below minimum", bedrooms, self.min_beds>>, "")
        ELSE IF bedrooms >= 0 /\ bedrooms > self.max_beds
        THEN MatchResult(FALSE, <<"beds above maximum", bedrooms, self.max_beds>>, "")
        ELSE IF self.areas # <<>> /\ ~MatchesAnyArea(self, location_text)
        THEN MatchResult(FALSE, <<"location not in target areas",
                                  IF area # <<>> THEN area ELSE address>>, "")
        ELSE IF /\ self.property_types # <<>>
                /\ property_type # <<>>
                /\ ~\E i \in 1..Len(self.property_types) :
                        Contains(property_type, self.property_types[i])
        THEN MatchResult(FALSE, <<"property type not in allowed types", property_type>>, "")
        ELSE IF excluded # 0
        THEN MatchResult(FALSE, <<"contains excluded keyword",
                                  self.exclude_keywords[excluded]>>, "")
        ELSE IF missing # 0
        THEN MatchResult(FALSE, <<"missing required feature",
                                  self.must_have[missing]>>, "")
        ELSE MatchResult(TRUE, <<>>, self.name)

(***************************************************************************)
(* core/filter.py : FilterManager                                          *)
(***************************************************************************)
\* faulty variant of LoadFilters: the "active" flag is not consulted
LoadFiltersIgnoringActive(searches) ==
    [i \in 1..Len(searches) |-> SearchFilter(searches[i])]

\* FilterManager.__init__: the profiles whose "active" is true, in
\* configuration order
RECURSIVE LoadFilters(_)
LoadFilters(searches) ==
    IF searches = <<>> THEN <<>>
    ELSE IF Head(searches).active
         THEN <<SearchFilter(Head(searches))>> \o LoadFilters(Tail(searches))
         ELSE LoadFilters(Tail(searches))

\* faulty variant of MatchesAny: an empty filter list rejects
MatchesAnyFailClosed(fs, listing) ==
    IF fs = <<>>
    THEN MatchResult(FALSE, <<"No match">>, "")
    ELSE LET hit == FirstTrue([i \in 1..Len(fs) |-> Matches(fs[i], listing).matches])
         IN  IF hit # 0
             THEN MatchResult(TRUE, <<>>, fs[hit].name)
             ELSE MatchResult(FALSE, <<fs[1].name, Matches(fs[1], listing).reason>>, "")

\* FilterManager.matches_any
MatchesAny(fs, listing) ==
    IF fs = <<>>
    THEN MatchResult(TRUE, <<"No filters configured">>, "default")
    ELSE LET hit == FirstTrue([i \in 1..Len(fs) |-> Matches(fs[i], listing).matches])
         IN  IF hit # 0
             THEN MatchResult(TRUE, <<>>, fs[hit].name)
             ELSE MatchResult(FALSE, <<fs[1].name, Matches(fs[1], listing).reason>>, "")

(***************************************************************************)
(* State                                                                   *)
(***************************************************************************)
VARIABLES
    searches,      \* config["searches"]: the configured search profiles
    filters,       \* FilterManager.filters
    listing,       \* the Listing handed to the filter operation under test
    called,        \* the filter operation that returned last, <<>> before any
    match_result,  \* <<r>>: the MatchResult it returned, <<>> when none
    area_result,   \* <<b>>: what _matches_any_area returned, <<>> when none
    scrapers,      \* ListingAggregator.scrapers: the enabled adapters, by name
    task,          \* the future of each adapter's _safe_fetch task
    collected,     \* the adapters whose future the as_completed loop has handled
    clock,         \* time units since fetch_all submitted the tasks
    all_listings,  \* all_listings of fetch_all, then of process_new_listings
    fetch_pc,      \* "idle", "collecting" (inside fetch_all), "returned"
    db_listings,   \* the listings table: id -> stored row
    new_listings,  \* what the last process_new_listings returned
    new_ids,       \* the ids add_listing returned True for in that run
    cycle,         \* process_new_listings runs completed
    add_log,       \* the add_listing calls made so far: listing, outcome, table
    filtered,      \* the ids handed to matches_any in the last run
    stored_before, \* the ids the table held when the last run started
    refetched,     \* the ids among them that the last run fetched again
    sent,          \* the send_listing calls made so far: id and cycle
    extract,       \* the last call of a pure function: its input and result
    scrape,        \* the last fetch_listings call of an adapter: what the
                   \* source served, the steps taken, what came back
    email_sender,  \* EmailSender: credentials configured, sent_count
    contacts,      \* the contacts table: one row per mark_contacted call
    outbox,        \* the inquiry emails the SMTP server accepted, by listing id
    window_sent,   \* how many of them it accepted since the last reset_rate_limit
    resets,        \* reset_rate_limit calls made so far
    request        \* the POST /email/<listing_id> requests: where the thread
                   \* of each stands, what it read and what it answered

filterVars == <<searches, filters, listing, called, match_result, area_result>>

fetchVars == <<scrapers, task, collected, clock, all_listings, fetch_pc>>

storeVars == <<db_listings, new_listings, new_ids, cycle,
               add_log, filtered, stored_before, refetched, sent>>

scrapeVars == <<extract, scrape>>

serverVars == <<email_sender, contacts, outbox, window_sent, resets, request>>

vars == <<searches, filters, listing, called, match_result, area_result,
          scrapers, task, collected, clock, all_listings, fetch_pc,
          db_listings, new_listings, new_ids, cycle,
          add_log, filtered, stored_before, refetched, sent,
          extract, scrape,
          email_sender, contacts, outbox, window_sent, resets, request>>

\* a future that was never submitted
NoTask == [state |-> "none", kind |-> "none", listings |-> <<>>, duration |-> 0,
           result |-> <<>>, done_at |-> 0]

\* the server at rest: EmailSender as __init__ leaves it with credentials in
\* the environment, no request received, nothing mailed, no contact logged
ServerIdle ==
    /\ email_sender = [configured |-> TRUE, sent_count |-> 0]
    /\ contacts = <<>>
    /\ outbox = <<>>
    /\ window_sent = 0
    /\ resets = 0
    /\ request = <<>>

\* the pipeline driver at rest: no add_listing call, no matches_any call and
\* no send_listing call was made; no adapter and no extractor was called
RunIdle ==
    /\ add_log = <<>>
    /\ filtered = <<>>
    /\ stored_before = {}
    /\ refetched = {}
    /\ sent = <<>>
    /\ extract = <<>>
    /\ scrape = <<>>
    /\ ServerIdle

\* the aggregator at rest: nothing fetched, nothing stored
AggregatorIdle ==
    /\ scrapers = <<>>
    /\ task = [s \in {} |-> NoTask]
    /\ collected = {}
    /\ clock = 0
    /\ all_listings = <<>>
    /\ fetch_pc = "idle"
    /\ db_listings = <<>>
    /\ new_listings = <<>>
    /\ new_ids = <<>>
    /\ cycle = 0
    /\ RunIdle

(***************************************************************************)
(* Inputs: texts, listings and search profiles                             *)
(***************************************************************************)
Txt_Dublin == <<"D","u","b","l","i","n">>
Txt_DUBLIN == <<"D","U","B","L","I","N">>
Txt_MainSt == <<"M","a","i","n"," ","S","t">>
Txt_Cork == <<"C","o","r","k">>
Txt_Apartment == <<"A","p","a","r","t","m","e","n","t">>
Txt_House == <<"H","o","u","s","e">>
Txt_Flat == <<"F","l","a","t"," ","t","o"," ","l","e","t">>
Txt_HouseShare == <<"H","o","u","s","e"," ","S","h","a","r","e">>
Txt_StudentDigs == <<"S","t","u","d","e","n","t"," ","d","i","g","s">>
Txt_QuietHome == <<"Q","u","i","e","t"," ","h","o","m","e",","," ","p","a","r","k","i","n","g",","," ","b","a","l","c","o","n","y">>
Txt_QuietParking == <<"Q","u","i","e","t"," ","h","o","m","e",","," ","p","a","r","k","i","n","g">>
Txt_Parking == <<"P","a","r","k","i","n","g">>
Txt_Balcony == <<"B","a","l","c","o","n","y">>
Txt_share == <<"s","h","a","r","e">>
Txt_student == <<"s","t","u","d","e","n","t">>
Txt_parking == <<"p","a","r","k","i","n","g">>
Txt_balcony == <<"b","a","l","c","o","n","y">>
Txt_apartment == <<"a","p","a","r","t","m","e","n","t">>

\* Listing(...) of scrapers/base_scraper.py, with the fields the pipeline reads
Listing(id, source, price, bedrooms, area, address, property_type, title, description, features, url) ==
    [id |-> id, source |-> source, title |-> title, price |-> price,
     bedrooms |-> bedrooms, property_type |-> property_type, area |-> area,
     address |-> address, url |-> url, description |-> description,
     features |-> features]

\* a search profile of config["searches"], every key present
Profile(name, active, min_price, max_price, min_beds, max_beds, areas, property_types, must_have, exclude_keywords) ==
    [name |-> name, active |-> active, min_price |-> min_price,
     max_price |-> max_price, min_beds |-> min_beds, max_beds |-> max_beds,
     areas |-> areas, property_types |-> property_types,
     must_have |-> must_have, nice_to_have |-> <<>>,
     exclude_keywords |-> exclude_keywords]

\* district numbers of Dublin postal districts
DistrictNums == {<<"1">>, <<"2">>, <<"6">>, <<"1","2">>, <<"2","0">>, <<"2","2">>}

\* the ways a profile names district n
ConfiguredAreas(n) ==
    {Txt_Dublin \o <<" ">> \o n, dublin \o <<" ">> \o n, <<"D">> \o n, <<"d">> \o n}

\* the ways a listing names district m
DistrictSpellings(m) ==
    {Txt_Dublin \o <<" ">> \o m, dublin \o <<" ">> \o m, Txt_DUBLIN \o <<" ">> \o m,
     Txt_Dublin \o m, dublin \o m,
     <<"D">> \o m, <<"d">> \o m, <<"D"," ">> \o m, <<"d"," ">> \o m}

\* listings that name one district, in the area or in the address field
DistrictListings ==
    UNION {UNION {
        {Listing("daft_1", "daft", 0, -1, sp, <<>>, <<>>, Txt_Flat, <<>>, <<>>, <<"u","1">>),
         Listing("daft_1", "daft", 0, -1, sp, Txt_MainSt, <<>>, Txt_Flat, <<>>, <<>>, <<"u","1">>),
         Listing("daft_1", "daft", 0, -1, <<>>, Txt_MainSt \o <<","," ">> \o sp, <<>>,
                 Txt_Flat, <<>>, <<>>, <<"u","1">>)}
        : sp \in DistrictSpellings(m)} : m \in DistrictNums}

\* a profile that constrains the area only
AreaProfile(a) == Profile("area", TRUE, 0, Infinity, 0, Infinity, <<a>>, <<>>, <<>>, <<>>)

AreaInputs ==
    {<< <<AreaProfile(a)>>, l >> :
        a \in UNION {ConfiguredAreas(n) : n \in DistrictNums}, l \in DistrictListings}

\* profiles that constrain every criterion, with and without property types
CheckProfiles ==
    {Profile("full", TRUE, 1000, 2000, 1, 3, <<Txt_Dublin \o <<" ","2">> >>, pt,
             <<Txt_Parking, Txt_Balcony>>, <<Txt_share, Txt_student>>)
        : pt \in {<<>>, <<Txt_Apartment>>}}
    \cup {Profile("open", TRUE, 0, Infinity, 0, Infinity, <<>>, <<>>, <<>>, <<>>)}

\* listings that pass or fail each criterion independently
CheckListings ==
    {Listing("daft_1", "daft", price, beds, area, <<>>, ptype, title, descr, feats, <<"u","1">>) :
        price \in {0, 500, 1500, 2500},
        beds  \in {-1, 0, 2, 4},
        area  \in {Txt_Dublin \o <<" ","2">>, Txt_Cork},
        ptype \in {<<>>, Txt_Apartment, Txt_House},
        title \in {Txt_Flat, Txt_HouseShare},
        descr \in {<<>>, Txt_StudentDigs, Txt_QuietHome, Txt_QuietParking},
        feats \in {<<>>, <<Txt_Parking>>, <<Txt_Parking, Txt_Balcony>>}}

CheckInputs == {<< <<p>>, l >> : p \in CheckProfiles, l \in CheckListings}

\* the most profiles one configuration holds
MaxProfiles == 2

\* profiles of a multi-profile configuration: two active, one switched off
ManagerProfiles ==
    {Profile("cheap", TRUE, 0, 1000, 0, Infinity, <<>>, <<>>, <<>>, <<>>),
     Profile("dear", TRUE, 2000, Infinity, 0, Infinity, <<>>, <<>>, <<>>, <<>>),
     Profile("off", FALSE, 0, Infinity, 0, Infinity, <<>>, <<>>, <<>>, <<>>)}

\* every configuration of at most MaxProfiles profiles, the empty one included
ManagerConfigs == UNION {[1..n -> ManagerProfiles] : n \in 0..MaxProfiles}

ManagerListings ==
    {Listing("daft_1", "daft", price, 2, Txt_Cork, <<>>, ptype, Txt_Flat, <<>>, <<>>, <<"u","1">>) :
        price \in {0, 500, 1500, 2500}, ptype \in {<<>>, Txt_House}}

ManagerInputs == {<<c, l>> : c \in ManagerConfigs, l \in ManagerListings}

\* no profile configured at all, against every listing above
ZeroConfigInputs == {<< <<>>, l >> : l \in CheckListings \cup DistrictListings}

\* profiles that constrain price and bedrooms only: a proper range, a
\* studio-only range, and no constraint
RangeProfiles ==
    {Profile("range", TRUE, 1000, 2000, 1, 3, <<>>, <<>>, <<>>, <<>>),
     Profile("studio", TRUE, 1000, 2000, 0, 0, <<>>, <<>>, <<>>, <<>>),
     Profile("open", TRUE, 0, Infinity, 0, Infinity, <<>>, <<>>, <<>>, <<>>)}

\* listings on, just inside and just outside the ends of those ranges, with
\* the unknown price 0 and the unknown bedroom count -1
RangeListings ==
    {Listing("daft_2", "daft", price, beds, Txt_Dublin, Txt_MainSt, Txt_Apartment,
             Txt_Flat, <<>>, <<>>, <<"u","2">>) :
        price \in {0, 1, 999, 1000, 2000, 2001},
        beds  \in {-1, 0, 1, 3, 4}}

RangeInputs == {<< <<p>>, l >> : p \in RangeProfiles, l \in RangeListings}

FilterInputs ==
    AreaInputs \cup CheckInputs \cup ManagerInputs \cup ZeroConfigInputs \cup RangeInputs

(***************************************************************************)
(* The filter operations, applied to one configuration and one listing     *)
(***************************************************************************)
InitFilter ==
    \E in \in FilterInputs :
        /\ searches = in[1]
        /\ filters = LoadFilters(in[1])
        /\ listing = in[2]
        /\ called = <<>>
        /\ match_result = <<>>
        /\ area_result = <<>>
        /\ AggregatorIdle

\* SearchFilter(searches[i]).matches(listing)
CallMatches(i) ==
    /\ called' = <<"matches", i>>
    /\ match_result' = <<Matches(SearchFilter(searches[i]), listing)>>
    /\ area_result' = <<>>
    /\ UNCHANGED <<searches, filters, listing, fetchVars, storeVars, scrapeVars, serverVars>>

\* SearchFilter(searches[i])._matches_any_area(location_text), as matches calls it
CallMatchesAnyArea(i) ==
    /\ called' = <<"_matches_any_area", i>>
    /\ area_result' = <<MatchesAnyArea(SearchFilter(searches[i]), LocationText(listing))>>
    /\ match_result' = <<>>
    /\ UNCHANGED <<searches, filters, listing, fetchVars, storeVars, scrapeVars, serverVars>>

\* FilterManager.matches_any(listing)
CallMatchesAny ==
    /\ called' = <<"matches_any", 0>>
    /\ match_result' = <<MatchesAny(filters, listing)>>
    /\ area_result' = <<>>
    /\ UNCHANGED <<searches, filters, listing, fetchVars, storeVars, scrapeVars, serverVars>>

NextFilter ==
    \/ \E i \in 1..Len(searches) : CallMatches(i)
    \/ \E i \in 1..Len(searches) : CallMatchesAnyArea(i)
    \/ CallMatchesAny

SpecFilter == InitFilter /\ [][NextFilter]_vars

(***************************************************************************)
(* Claims about the area check (SpecFilter)                                *)
(***************************************************************************)
\* the profile under test has the single area a
OnlyArea(a) == Len(searches) = 1 /\ searches[1].areas = <<a>>

\* the listing's location names district m as "Dublin m", in any letter case
NamesDublinDistrict(m) ==
    \E sp \in {Txt_Dublin \o <<" ">> \o m, dublin \o <<" ">> \o m, Txt_DUBLIN \o <<" ">> \o m} :
        \/ listing.area = sp /\ listing.address \in {<<>>, Txt_MainSt}
        \/ listing.area = <<>> /\ listing.address = Txt_MainSt \o <<","," ">> \o sp

\* the listing's location is one spelling sp of a district, with or without a street
LocationSpelled(sp) ==
    \/ listing.area = sp /\ listing.address \in {<<>>, Txt_MainSt}
    \/ listing.area = <<>> /\ listing.address = Txt_MainSt \o <<","," ">> \o sp

AreaCheckReturned == called # <<>> /\ called[1] = "_matches_any_area"

\* C4: a profile whose only area is "Dublin n" rejects, in the area check,
\* every listing that names only another district "Dublin m", m # n, also
\* when the digits of n are a prefix or a suffix of those of m
C4_OtherDistrictRejected ==
    \A n \in DistrictNums : \A m \in DistrictNums \ {n} :
        (/\ AreaCheckReturned
         /\ OnlyArea(Txt_Dublin \o <<" ">> \o n)
         /\ NamesDublinDistrict(m))
        => area_result = <<FALSE>>

\* C5: a profile area "dublin <n>" accepts, in any letter case, each of the
\* four spellings of the same district: "dublin <n>", "dublin<n>", the
\* whole word "d<n>", and "d <n>"
C5_FourSpellingsAccepted ==
    \A n \in DistrictNums :
        \A sp \in {dublin \o <<" ">> \o n, Txt_Dublin \o <<" ">> \o n,
                   dublin \o n, Txt_Dublin \o n,
                   <<"d">> \o n, <<"D">> \o n,
                   <<"d"," ">> \o n, <<"D"," ">> \o n} :
            (/\ AreaCheckReturned
             /\ OnlyArea(dublin \o <<" ">> \o n)
             /\ LocationSpelled(sp))
            => area_result = <<TRUE>>

\* C6: a profile area in the compact form "d<n>" (for example "D2") accepts
\* a listing whose location text contains "dublin <n>" for the same n
C6_CompactAreaAcceptsDublinN ==
    \A n \in DistrictNums :
        (/\ AreaCheckReturned
         /\ (OnlyArea(<<"D">> \o n) \/ OnlyArea(<<"d">> \o n))
         /\ NamesDublinDistrict(n))
        => area_result = <<TRUE>>

(***************************************************************************)
(* Claims about SearchFilter.matches (SpecFilter)                          *)
(***************************************************************************)
MatchesReturned == called # <<>> /\ called[1] = "matches"

\* the profile matches was called on
CalledProfile == searches[called[2]]

\* the listing's price is known and outside [min_price, max_price]
PriceFails(p, l) == l.price > 0 /\ (l.price < p.min_price \/ l.price > p.max_price)

\* the listing's bedroom count is known and outside [min_beds, max_beds]
BedroomsFail(p, l) == l.bedrooms >= 0 /\ (l.bedrooms < p.min_beds \/ l.bedrooms > p.max_beds)

\* the profile names areas and the area check rejects the location text
AreaFails(p, l) == p.areas # <<>> /\ ~MatchesAnyArea(SearchFilter(p), LocationText(l))

\* the profile names property types, the listing has one, and no named type
\* occurs in it
PropertyTypeFails(p, l) ==
    /\ p.property_types # <<>>
    /\ l.property_type # <<>>
    /\ \A i \in 1..Len(p.property_types) :
           ~Contains(Lower(l.property_type), Lower(p.property_types[i]))

\* an exclude keyword occurs in title + description
ExcludeFails(p, l) ==
    \E i \in 1..Len(p.exclude_keywords) :
        Contains(Lower(l.title \o <<" ">> \o l.description), Lower(p.exclude_keywords[i]))

\* a must-have keyword is missing from features + description
MustHaveFails(p, l) ==
    \E i \in 1..Len(p.must_have) :
        ~Contains(Lower(JoinSpace(l.features) \o <<" ">> \o l.description),
                  Lower(p.must_have[i]))

\* the check a rejection reason belongs to
ReasonCheck(reason) ==
    CASE reason[1] \in {"price below minimum", "price above maximum"} -> "price"
      [] reason[1] \in {"beds below minimum", "beds above maximum"} -> "bedrooms"
      [] reason[1] = "location not in target areas" -> "area"
      [] reason[1] = "property type not in allowed types" -> "property type"
      [] reason[1] = "contains excluded keyword" -> "exclude keywords"
      [] reason[1] = "missing required feature" -> "must-have features"
      [] OTHER -> "none"

\* the five checks the specification lists, in its order
FiveChecks(p, l) ==
    << [check |-> "price", fails |-> PriceFails(p, l)],
       [check |-> "bedrooms", fails |-> BedroomsFail(p, l)],
       [check |-> "area", fails |-> AreaFails(p, l)],
       [check |-> "exclude keywords", fails |-> ExcludeFails(p, l)],
       [check |-> "must-have features", fails |-> MustHaveFails(p, l)] >>

\* the six checks of the code, in its order
SixChecks(p, l) ==
    << [check |-> "price", fails |-> PriceFails(p, l)],
       [check |-> "bedrooms", fails |-> BedroomsFail(p, l)],
       [check |-> "area", fails |-> AreaFails(p, l)],
       [check |-> "property type", fails |-> PropertyTypeFails(p, l)],
       [check |-> "exclude keywords", fails |-> ExcludeFails(p, l)],
       [check |-> "must-have features", fails |-> MustHaveFails(p, l)] >>

\* the earliest failing check of a list of checks, "none" when all pass
EarliestFailing(checks) ==
    IF \E i \in 1..Len(checks) : checks[i].fails
    THEN checks[CHOOSE i \in 1..Len(checks) :
                    checks[i].fails /\ \A j \in 1..(i - 1) : ~checks[j].fails].check
    ELSE "none"

\* C7 (as claimed): a rejection reports the reason of the earliest failing
\* check in the order price, bedrooms, area, exclude keywords, must-have
\* features
C7_ReasonIsEarliestOfFive ==
    (MatchesReturned /\ ~match_result[1].matches)
    => ReasonCheck(match_result[1].reason) = EarliestFailing(FiveChecks(CalledProfile, listing))

\* C7 (amended): a rejection reports the reason of the earliest failing
\* check in the order price, bedrooms, area, property type, exclude
\* keywords, must-have features
C7_ReasonIsEarliestOfSix ==
    (MatchesReturned /\ ~match_result[1].matches)
    => ReasonCheck(match_result[1].reason) = EarliestFailing(SixChecks(CalledProfile, listing))

\* C7 witness: a listing that violates only the exclude keywords and the
\* must-have features was rejected with the exclude-keyword reason
C7_Witness ==
    /\ MatchesReturned
    /\ ~PriceFails(CalledProfile, listing)
    /\ ~BedroomsFail(CalledProfile, listing)
    /\ ~AreaFails(CalledProfile, listing)
    /\ ~PropertyTypeFails(CalledProfile, listing)
    /\ ExcludeFails(CalledProfile, listing)
    /\ MustHaveFails(CalledProfile, listing)
    /\ ~match_result[1].matches
    /\ match_result[1].reason[1] = "contains excluded keyword"

\* C8 (as claimed): matches accepts exactly the listings that pass the five
\* checks price, bedrooms, area, exclude keywords, must-have features,
\* whatever their property_type
C8_AcceptsIffFivePass ==
    MatchesReturned
    => (match_result[1].matches <=> EarliestFailing(FiveChecks(CalledProfile, listing)) = "none")

\* C8 (amended): matches accepts exactly the listings that pass the six
\* checks price, bedrooms, area, property type, exclude keywords, must-have
\* features
C8_AcceptsIffSixPass ==
    MatchesReturned
    => (match_result[1].matches <=> EarliestFailing(SixChecks(CalledProfile, listing)) = "none")

\* C8 witness: a listing passing all six checks of a profile that constrains
\* each of them was accepted
C8_Witness ==
    /\ MatchesReturned
    /\ CalledProfile.property_types # <<>>
    /\ CalledProfile.must_have # <<>>
    /\ listing.property_type # <<>>
    /\ listing.price > 0
    /\ EarliestFailing(SixChecks(CalledProfile, listing)) = "none"
    /\ match_result[1].matches

(***************************************************************************)
(* Claims about FilterManager.matches_any (SpecFilter)                     *)
(***************************************************************************)
MatchesAnyReturned == called # <<>> /\ called[1] = "matches_any"

\* the configured profiles marked active, by position
ActiveProfiles == {i \in 1..Len(searches) : searches[i].active}

\* some active profile accepts the listing
SomeActiveAccepts ==
    \E i \in ActiveProfiles : Matches(SearchFilter(searches[i]), listing).matches

\* C9 (as claimed): matches_any reports a match iff some active profile
\* accepts the listing; otherwise the reason is the rejection reason of the
\* first profile in configuration order
C9_MatchIffSomeActiveAccepts ==
    MatchesAnyReturned
    => /\ match_result[1].matches <=> SomeActiveAccepts
       /\ ~match_result[1].matches
          => match_result[1].reason =
                <<searches[1].name, Matches(SearchFilter(searches[1]), listing).reason>>

\* C9 (amended): with at least one active profile, matches_any reports a
\* match iff some active profile accepts the listing, and otherwise the
\* reason is the rejection reason of the first active profile in
\* configuration order, prefixed with its name; with no active profile it
\* reports a match
C9_MatchIffSomeActiveAcceptsOrNoneActive ==
    MatchesAnyReturned
    => /\ match_result[1].matches <=> (SomeActiveAccepts \/ ActiveProfiles = {})
       /\ ~match_result[1].matches
          => LET first == CHOOSE i \in ActiveProfiles : \A j \in ActiveProfiles : i <= j
             IN  match_result[1].reason =
                    <<searches[first].name,
                      Matches(SearchFilter(searches[first]), listing).reason>>

\* C9 witness: an inactive profile that would accept the listing is first,
\* an active one rejects it, and matches_any reported no match
C9_Witness ==
    /\ MatchesAnyReturned
    /\ Len(searches) = 2
    /\ ~searches[1].active
    /\ Matches(SearchFilter(searches[1]), listing).matches
    /\ searches[2].active
    /\ ~match_result[1].matches

\* C10: with zero configured profiles matches_any accepts every listing
C10_FailOpen ==
    (MatchesAnyReturned /\ searches = <<>>) => match_result[1].matches

\* C10 witness: no profile is configured and a listing with a known price,
\* a property type and an exclude-worthy title was accepted
C10_Witness ==
    /\ MatchesAnyReturned
    /\ searches = <<>>
    /\ listing.price = 2500
    /\ listing.property_type = Txt_House
    /\ listing.title = Txt_HouseShare
    /\ match_result[1].matches

(***************************************************************************)
(* core/aggregator.py : ListingAggregator.fetch_all                        *)
(***************************************************************************)
\* the timeout of future.result(timeout=120)
Timeout == 120

\* the clock stops here
MaxClock == 122

\* the elements of a sequence
Range(seq) == {seq[i] : i \in 1..Len(seq)}

\* the listings of one source in a sequence, in its order
RECURSIVE OfSource(_, _)
OfSource(seq, source) ==
    IF seq = <<>> THEN <<>>
    ELSE IF Head(seq).source = source
         THEN <<Head(seq)>> \o OfSource(Tail(seq), source)
         ELSE OfSource(Tail(seq), source)

\* faulty variant of SafeFetch: the listings gathered before the exception are returned
SafeFetchKeepsPartial(kind, listings) == listings

\* ListingAggregator._safe_fetch: what the task returns for an adapter whose
\* fetch_listings returns listings (kind "return") or raises after having
\* gathered listings (kind "raise")
SafeFetch(kind, listings) == IF kind = "raise" THEN <<>> ELSE listings

\* fetch_all, up to the submission of one _safe_fetch task per adapter;
\* behaviour[s] is what adapter s will do: return or raise after duration
\* time units, or never come back (kind "hang")
FetchAllSubmit(behaviour) ==
    /\ fetch_pc = "idle"
    /\ DOMAIN behaviour = Range(scrapers)
    /\ all_listings' = <<>>
    /\ collected' = {}
    /\ clock' = 0
    /\ IF scrapers = <<>>
       THEN /\ fetch_pc' = "returned"
            /\ task' = task
       ELSE /\ fetch_pc' = "collecting"
            /\ task' = [s \in Range(scrapers) |->
                          [state |-> "running", kind |-> behaviour[s].kind,
                           listings |-> behaviour[s].listings,
                           duration |-> behaviour[s].duration,
                           result |-> <<>>, done_at |-> 0]]
    /\ UNCHANGED <<scrapers, filterVars, storeVars, scrapeVars, serverVars>>

\* a running task is due: its adapter comes back at this instant
Due(s) ==
    /\ task[s].state = "running"
    /\ task[s].kind # "hang"
    /\ task[s].duration = clock

\* one time unit passes while fetch_all waits for its tasks
Tick ==
    /\ fetch_pc = "collecting"
    /\ clock < MaxClock
    /\ \E s \in Range(scrapers) : task[s].state = "running"
    /\ \A s \in Range(scrapers) : ~Due(s)
    /\ clock' = clock + 1
    /\ UNCHANGED <<scrapers, task, collected, all_listings, fetch_pc, filterVars, storeVars, scrapeVars, serverVars>>

\* the worker thread of adapter s finishes _safe_fetch
TaskCompletes(s) ==
    /\ fetch_pc = "collecting"
    /\ Due(s)
    /\ task' = [task EXCEPT ![s].state = "done",
                            ![s].result = SafeFetch(task[s].kind, task[s].listings),
                            ![s].done_at = clock]
    /\ UNCHANGED <<scrapers, collected, clock, all_listings, fetch_pc, filterVars, storeVars, scrapeVars, serverVars>>

\* one iteration of "for future in as_completed(futures)": as_completed
\* yields a finished future, future.result(timeout=120) returns at once,
\* the listings are appended
CollectResult(s) ==
    /\ fetch_pc = "collecting"
    /\ s \notin collected
    /\ task[s].state = "done"
    /\ all_listings' = all_listings \o task[s].result
    /\ collected' = collected \cup {s}
    /\ UNCHANGED <<scrapers, task, clock, fetch_pc, filterVars, storeVars, scrapeVars, serverVars>>

\* as_completed is exhausted and the executor has shut down (it waits for
\* every task): fetch_all returns all_listings
FetchAllReturn ==
    /\ fetch_pc = "collecting"
    /\ collected = Range(scrapers)
    /\ \A s \in Range(scrapers) : task[s].state = "done"
    /\ fetch_pc' = "returned"
    /\ UNCHANGED <<scrapers, task, collected, clock, all_listings, filterVars, storeVars, scrapeVars, serverVars>>

(***************************************************************************)
(* Inputs of the aggregator: what the sources serve                        *)
(***************************************************************************)
SourceListing(id, source, price, url) ==
    Listing(id, source, price, 2, Txt_Cork, <<>>, <<>>, Txt_Flat, <<>>, <<>>, url)

Daft1 == SourceListing("daft_1", "daft", 900, <<"u","1">>)
Daft2 == SourceListing("daft_2", "daft", 1500, <<"u","2">>)
Rent1 == SourceListing("rent_ie_1", "rent_ie", 2500, <<"u","3">>)
Rent2 == SourceListing("rent_ie_2", "rent_ie", 1500, <<"u","4">>)
MyHome1 == SourceListing("myhome_1", "myhome", 900, <<>>)
MyHome2 == SourceListing("myhome_2", "myhome", 1500, <<>>)

\* myhome_1 fetched again with another price, myhome_2 fetched again with a
\* link
MyHome1Repriced == SourceListing("myhome_1", "myhome", 950, <<>>)
MyHome2Linked == SourceListing("myhome_2", "myhome", 1500, <<"u","6">>)

\* the listing sequences one fetch_listings call of adapter s may yield
Feeds(s) ==
    CASE s = "daft" -> {<<Daft1, Daft2>>, <<Daft2, Daft1, Daft2>>}
      [] s = "rent_ie" -> {<<Rent1, Rent2>>, <<Rent2>>}
      [] s = "myhome" -> {<<MyHome1, MyHome2>>, <<MyHome2, MyHome1>>,
                          <<MyHome1, MyHome2, MyHome2Linked>>}

\* the listings adapter s has gathered when its fetch_listings raises
PartialFeed(s) ==
    CASE s = "daft" -> <<Daft1>>
      [] s = "rent_ie" -> <<Rent1>>
      [] s = "myhome" -> <<MyHome2>>

AdapterNames == {"daft", "rent_ie", "myhome"}

\* what adapter s may do in one fetch: return a feed after one of the
\* durations, raise at once having gathered a feed, or (hangs) never return
Behaviours(s, durations, hangs) ==
    {[kind |-> "return", listings |-> f, duration |-> d] : f \in Feeds(s), d \in durations}
    \cup {[kind |-> "raise", listings |-> PartialFeed(s), duration |-> 1]}
    \cup (IF hangs THEN {[kind |-> "hang", listings |-> <<>>, duration |-> 0]} ELSE {})

\* one behaviour for every enabled adapter
BehaviourChoices(durations, hangs) ==
    {[s \in Range(scrapers) |->
        CASE s = "daft" -> d [] s = "rent_ie" -> r [] s = "myhome" -> m] :
        d \in Behaviours("daft", durations, hangs),
        r \in Behaviours("rent_ie", durations, hangs),
        m \in Behaviours("myhome", durations, hangs)}

\* config["scrapers"]: the adapters enabled, in the order __init__ adds them
ScraperConfigs == {<<"daft", "rent_ie", "myhome">>, <<"daft", "myhome">>, <<"rent_ie">>, <<>>}

(***************************************************************************)
(* fetch_all alone, with fast, slow, raising and hanging adapters          *)
(***************************************************************************)
InitFetch ==
    /\ searches = <<>>
    /\ filters = LoadFilters(<<>>)
    /\ listing = Daft1
    /\ called = <<>>
    /\ match_result = <<>>
    /\ area_result = <<>>
    /\ scrapers \in ScraperConfigs
    /\ task = [s \in Range(scrapers) |-> NoTask]
    /\ collected = {}
    /\ clock = 0
    /\ all_listings = <<>>
    /\ fetch_pc = "idle"
    /\ db_listings = <<>>
    /\ new_listings = <<>>
    /\ new_ids = <<>>
    /\ cycle = 0
    /\ RunIdle

NextFetch ==
    \/ fetch_pc = "idle" /\ \E b \in BehaviourChoices({1, Timeout + 1}, TRUE) : FetchAllSubmit(b)
    \/ Tick
    \/ \E s \in Range(scrapers) : TaskCompletes(s)
    \/ \E s \in Range(scrapers) : CollectResult(s)
    \/ FetchAllReturn

SpecFetch == InitFetch /\ [][NextFetch]_vars

(***************************************************************************)
(* core/database.py : Database.listing_exists, Database.add_listing        *)
(***************************************************************************)
\* listing_exists: SELECT 1 FROM listings WHERE id = ?
ListingExists(db, listing_id) == \E i \in 1..Len(db) : db[i].id = listing_id

\* the row INSERT INTO listings stores; notified_at and contacted_at are NULL
Row(listing_id, l) ==
    [id |-> listing_id, url |-> l.url, data |-> l,
     notified_at |-> "NULL", contacted_at |-> "NULL"]

\* add_listing(listing.to_dict()): the table afterwards and the outcome,
\* "True", "False", or "raise" when the INSERT violates url TEXT UNIQUE
\* (to_dict always carries a url string, so no url is NULL)
AddListing(db, l) ==
    LET listing_id == IF l.id = "" THEN l.source \o "_" ELSE l.id
    IN  IF ListingExists(db, listing_id)
        THEN [db |-> db, outcome |-> "False"]
        ELSE IF \E i \in 1..Len(db) : db[i].url = l.url
        THEN [db |-> db, outcome |-> "raise"]
        ELSE [db |-> Append(db, Row(listing_id, l)), outcome |-> "True"]

(***************************************************************************)
(* core/aggregator.py : ListingAggregator.process_new_listings             *)
(***************************************************************************)
\* faulty variant of ProcessLoop: matches_any is called before add_listing,
\* for every fetched listing
RECURSIVE ProcessLoopFiltersFirst(_, _, _, _, _, _)
ProcessLoopFiltersFirst(fs, rest, db, new, ids, filt) ==
    IF rest = <<>>
    THEN [db |-> db, new_listings |-> new, new_ids |-> ids, filtered |-> filt]
    ELSE LET l == Head(rest)
             added == AddListing(db, l)
         IN  IF Truthy(MatchesAny(fs, l))
             THEN ProcessLoopFiltersFirst(fs, Tail(rest), added.db, Append(new, l),
                      IF added.outcome = "True" THEN Append(ids, l.id) ELSE ids,
                      Append(filt, l.id))
             ELSE ProcessLoopFiltersFirst(fs, Tail(rest), added.db, new,
                      IF added.outcome = "True" THEN Append(ids, l.id) ELSE ids,
                      Append(filt, l.id))

\* the loop "for listing in all_listings" from the state (db, new, ids, filt):
\* new is new_listings, ids the ids counted by new_count, filt the ids
\* matches_any was called with; an exception of add_listing is caught and
\* the loop continues
RECURSIVE ProcessLoop(_, _, _, _, _, _)
ProcessLoop(fs, rest, db, new, ids, filt) ==
    IF rest = <<>>
    THEN [db |-> db, new_listings |-> new, new_ids |-> ids, filtered |-> filt]
    ELSE LET l == Head(rest)
             added == AddListing(db, l)
         IN  IF added.outcome = "True"
             THEN IF Truthy(MatchesAny(fs, l))
                  THEN ProcessLoop(fs, Tail(rest), added.db, Append(new, l),
                                   Append(ids, l.id), Append(filt, l.id))
                  ELSE ProcessLoop(fs, Tail(rest), added.db, new,
                                   Append(ids, l.id), Append(filt, l.id))
             ELSE ProcessLoop(fs, Tail(rest), added.db, new, ids, filt)

\* process_new_listings after its call of fetch_all has returned: the loop
\* over all_listings, then the return of new_listings to run_once; the
\* locals of the call (all_listings, the futures) are gone afterwards
ProcessNewListings ==
    /\ fetch_pc = "returned"
    /\ LET done == ProcessLoop(filters, all_listings, db_listings, <<>>, <<>>, <<>>)
       IN  /\ db_listings' = done.db
           /\ new_listings' = done.new_listings
           /\ new_ids' = done.new_ids
           /\ filtered' = done.filtered
    /\ stored_before' = {db_listings[i].id : i \in 1..Len(db_listings)}
    /\ refetched' = {all_listings[i].id : i \in 1..Len(all_listings)} \cap stored_before'
    /\ cycle' = cycle + 1
    /\ fetch_pc' = "processed"
    /\ all_listings' = <<>>
    /\ task' = [s \in Range(scrapers) |-> NoTask]
    /\ collected' = {}
    /\ clock' = 0
    /\ UNCHANGED <<scrapers, filterVars, add_log, sent, scrapeVars, serverVars>>

(***************************************************************************)
(* main.py : RentalHunter.run_once, after process_new_listings             *)
(***************************************************************************)
\* mark_notified: UPDATE listings SET notified_at = ? WHERE id = ?
MarkNotified(db, listing_id) ==
    [i \in 1..Len(db) |->
        IF db[i].id = listing_id THEN [db[i] EXCEPT !.notified_at = "set"] ELSE db[i]]

\* the loop "for listing in new_listings" of run_once: send_listing is
\* called for each, mark_notified where it returned True (delivered)
RECURSIVE NotifyLoop(_, _, _, _, _)
NotifyLoop(rest, delivered, db, log, c) ==
    IF rest = <<>>
    THEN [db |-> db, sent |-> log]
    ELSE LET l == Head(rest)
         IN  NotifyLoop(Tail(rest), delivered,
                        IF l.id \in delivered THEN MarkNotified(db, l.id) ELSE db,
                        Append(log, [id |-> l.id, cycle |-> c]), c)

\* run_once from the return of process_new_listings: nothing new, or quiet
\* hours, ends the cycle; otherwise every new listing is sent
RunOnceNotify(quiet, delivered) ==
    /\ fetch_pc = "processed"
    /\ fetch_pc' = "idle"
    /\ IF new_listings = <<>> \/ quiet
       THEN UNCHANGED <<db_listings, sent>>
       ELSE LET done == NotifyLoop(new_listings, delivered, db_listings, sent, cycle)
            IN  /\ db_listings' = done.db
                /\ sent' = done.sent
    /\ UNCHANGED <<scrapers, task, collected, clock, all_listings, filterVars,
                   new_listings, new_ids, cycle, add_log, filtered, stored_before,
                   refetched, scrapeVars, serverVars>>

\* the listings of new_listings whose send_listing call may return True:
\* all of them, none, or all but the first
Deliveries ==
    LET ids == {new_listings[i].id : i \in 1..Len(new_listings)}
    IN  {ids, {}, ids \ {IF new_listings = <<>> THEN "" ELSE new_listings[1].id}}

(***************************************************************************)
(* The pipeline: process_new_listings, run MaxCycles times                 *)
(***************************************************************************)
\* process_new_listings runs at most this often
MaxCycles == 2

\* the search profiles of the pipeline runs
PipelineConfigs ==
    {<<>>,
     <<Profile("cheap", TRUE, 0, 1000, 0, Infinity, <<>>, <<>>, <<>>, <<>>)>>,
     <<Profile("cheap", TRUE, 0, 1000, 0, Infinity, <<>>, <<>>, <<>>, <<>>),
       Profile("dear", TRUE, 2000, Infinity, 0, Infinity, <<>>, <<>>, <<>>, <<>>)>>,
     <<Profile("off", FALSE, 0, Infinity, 0, Infinity, <<>>, <<>>, <<>>, <<>>),
       Profile("dear", TRUE, 2000, Infinity, 0, Infinity, <<>>, <<>>, <<>>, <<>>)>>}

Init ==
    /\ searches \in PipelineConfigs
    /\ filters = LoadFilters(searches)
    /\ listing = Daft1
    /\ called = <<>>
    /\ match_result = <<>>
    /\ area_result = <<>>
    /\ scrapers \in {<<"daft", "myhome">>, <<"rent_ie">>}
    /\ task = [s \in Range(scrapers) |-> NoTask]
    /\ collected = {}
    /\ clock = 0
    /\ all_listings = <<>>
    /\ fetch_pc = "idle"
    /\ db_listings = <<>>
    /\ new_listings = <<>>
    /\ new_ids = <<>>
    /\ cycle = 0
    /\ RunIdle

Next ==
    \/ /\ fetch_pc = "idle"
       /\ cycle < MaxCycles
       /\ \E b \in BehaviourChoices({1}, FALSE) : FetchAllSubmit(b)
    \/ Tick
    \/ \E s \in Range(scrapers) : TaskCompletes(s)
    \/ \E s \in Range(scrapers) : CollectResult(s)
    \/ FetchAllReturn
    \/ ProcessNewListings
    \/ \E quiet \in BOOLEAN, delivered \in Deliveries : RunOnceNotify(quiet, delivered)

Spec == Init /\ [][Next]_vars

(***************************************************************************)
(* Claims about fetch_all (SpecFetch)                                      *)
(***************************************************************************)
\* C2: when fetch_all returns, its result holds the listings of every
\* adapter that completed within Timeout time units of the submission and
\* no listing of an adapter that completed later
C2_LateAdapterDropped ==
    fetch_pc = "returned"
    => \A s \in Range(scrapers) :
          OfSource(all_listings, s) =
             IF task[s].done_at > Timeout THEN <<>> ELSE task[s].result

\* C3: when fetch_all returns, its result holds, for every adapter that did
\* not raise, that adapter's listings in the adapter's own order, nothing
\* for an adapter that raised, and nothing else
C3_RaisingAdaptersContributeNothing ==
    fetch_pc = "returned"
    => /\ \A i \in 1..Len(all_listings) : all_listings[i].source \in Range(scrapers)
       /\ \A s \in Range(scrapers) :
             OfSource(all_listings, s) =
                IF task[s].kind = "raise" THEN <<>> ELSE task[s].listings

\* C3 witness: fetch_all returned after one adapter raised with listings
\* already gathered and two others returned several listings each
C3_Witness ==
    /\ fetch_pc = "returned"
    /\ \E s \in Range(scrapers) : task[s].kind = "raise" /\ task[s].listings # <<>>
    /\ \E s, t \in Range(scrapers) :
          /\ s # t
          /\ task[s].kind = "return" /\ Len(task[s].listings) >= 2
          /\ task[t].kind = "return" /\ Len(task[t].listings) >= 2
    /\ Len(all_listings) >= 4

(***************************************************************************)
(* Claims about process_new_listings (Spec)                                *)
(***************************************************************************)
\* C1: with at least one active profile loaded, every listing returned by
\* process_new_listings was newly inserted by add_listing in that run and
\* is accepted by matches of at least one active profile
C1_ReturnedAreNewAndMatching ==
    (cycle > 0 /\ filters # <<>>)
    => \A i \in 1..Len(new_listings) :
          /\ new_listings[i].id \in Range(new_ids)
          /\ \E j \in 1..Len(filters) : Matches(filters[j], new_listings[i]).matches

(***************************************************************************)
(* Database.add_listing alone, called with any sequence of listings        *)
(***************************************************************************)
\* add_listing is called at most this often
MaxCalls == 4

\* the listings add_listing is called with
DbListings == {Daft1, MyHome1, MyHome1Repriced, MyHome2, MyHome2Linked}

InitDb ==
    /\ searches = <<>>
    /\ filters = LoadFilters(<<>>)
    /\ listing = Daft1
    /\ called = <<>>
    /\ match_result = <<>>
    /\ area_result = <<>>
    /\ AggregatorIdle

\* one call add_listing(l.to_dict()); the call is recorded with its outcome
\* and the table before and after it
CallAddListing(l) ==
    /\ Len(add_log) < MaxCalls
    /\ LET added == AddListing(db_listings, l)
       IN  /\ db_listings' = added.db
           /\ add_log' = Append(add_log, [listing |-> l, outcome |-> added.outcome,
                                          before |-> db_listings, after |-> added.db])
    /\ UNCHANGED <<filterVars, fetchVars, new_listings, new_ids, cycle,
                   filtered, stored_before, refetched, sent, scrapeVars, serverVars>>

NextDb == \E l \in DbListings : CallAddListing(l)

SpecDb == InitDb /\ [][NextDb]_vars

(***************************************************************************)
(* Claims about add_listing (SpecDb)                                       *)
(***************************************************************************)
\* the k-th add_listing call is the first one made with its listing id
FirstCallWithId(k) ==
    \A j \in 1..(k - 1) : add_log[j].listing.id # add_log[k].listing.id

\* C11: in every sequence of add_listing calls, the first call with a
\* listing id returns True, every later call with that id returns False and
\* leaves the table as it was
C11_TrueExactlyOnFirstCall ==
    \A k \in 1..Len(add_log) :
        IF FirstCallWithId(k)
        THEN add_log[k].outcome = "True"
        ELSE add_log[k].outcome = "False" /\ add_log[k].after = add_log[k].before

(***************************************************************************)
(* Claims about run_once (Spec)                                            *)
(***************************************************************************)
\* C12: in every cycle, no listing id the table held before the cycle is
\* handed to matches_any or to send_listing in that cycle, and over all
\* cycles no listing id is handed to send_listing twice
C12_StoredNeitherFilteredNorSent ==
    /\ \A i \in 1..Len(filtered) : filtered[i] \notin stored_before
    /\ \A i \in 1..Len(sent) : sent[i].cycle = cycle => sent[i].id \notin stored_before
    /\ \A i, j \in 1..Len(sent) : i # j => sent[i].id # sent[j].id

\* C12 witness: the second cycle fetched a stored listing again together
\* with new ones, filtered the new ones and sent them, after the first
\* cycle had sent listings too
C12_Witness ==
    /\ cycle = 2
    /\ fetch_pc = "idle"
    /\ refetched # {}
    /\ filtered # <<>>
    /\ \E i, j \in 1..Len(sent) : sent[i].cycle = 1 /\ sent[j].cycle = 2
    /\ \E i \in 1..Len(db_listings) :
          db_listings[i].id \in refetched /\ db_listings[i].notified_at = "set"

(***************************************************************************)
(* scrapers/base_scraper.py : the field extractors                         *)
(***************************************************************************)
\* the character U+20AC (euro sign): no letter, no digit, no whitespace
Euro == "euro"

DigitChars == <<"0","1","2","3","4","5","6","7","8","9">>

DigitValue(c) == (CHOOSE n \in 1..10 : DigitChars[n] = c) - 1

\* int(s) for a non-empty string of digits
RECURSIVE ToInt(_)
ToInt(ds) ==
    IF ds = <<>> THEN 0
    ELSE ToInt(SubSeq(ds, 1, Len(ds) - 1)) * 10 + DigitValue(ds[Len(ds)])

\* the longest run of digits at the start of s
RECURSIVE LeadingDigits(_)
LeadingDigits(s) ==
    IF s # <<>> /\ Head(s) \in Digits THEN <<Head(s)>> \o LeadingDigits(Tail(s)) ELSE <<>>

\* re.findall(r"\d+", s)
RECURSIVE FindAllDigitRuns(_)
FindAllDigitRuns(s) ==
    IF s = <<>> THEN <<>>
    ELSE IF Head(s) \in Digits
         THEN LET run == LeadingDigits(s)
              IN  <<run>> \o FindAllDigitRuns(SubSeq(s, Len(run) + 1, Len(s)))
         ELSE FindAllDigitRuns(Tail(s))

\* the keywords of is_weekly
WeeklyKeywords ==
    {<<"p","e","r"," ","w","e","e","k">>,
     <<"/","w","e","e","k">>,
     <<"p","w">>,
     <<"p","/","w">>,
     <<"w","e","e","k","l","y">>}

\* int(price * 4.33): the float product truncated; for every price up to
\* two million it equals the exact quotient
TimesWeeksPerMonth(price) == (price * 433) \div 100

\* faulty variant of NormalizePrice: a small first number is never joined
\* with the second one
NormalizePriceFirstRunOnly(price_str) ==
    IF price_str = <<>> THEN 0
    ELSE LET low == Lower(price_str)
             is_weekly == \E w \in WeeklyKeywords : Contains(low, w)
             digits == FindAllDigitRuns(RemoveAll(low, <<",">>))
         IN  IF digits = <<>> THEN 0
             ELSE IF is_weekly THEN TimesWeeksPerMonth(ToInt(digits[1]))
                  ELSE ToInt(digits[1])

\* BaseScraper._normalize_price
NormalizePrice(price_str) ==
    IF price_str = <<>> THEN 0
    ELSE LET low == Lower(price_str)
             is_weekly == \E w \in WeeklyKeywords : Contains(low, w)
             digits == FindAllDigitRuns(RemoveAll(low, <<",">>))
         IN  IF digits = <<>> THEN 0
             ELSE LET first == ToInt(digits[1])
                      price == IF first < 100 /\ Len(digits) > 1
                               THEN ToInt(digits[1] \o digits[2])
                               ELSE first
                  IN  IF is_weekly THEN TimesWeeksPerMonth(price) ELSE price

\* BaseScraper.WORD_TO_NUM: the n-th word stands for n, in the order the
\* dictionary is iterated
WORD_TO_NUM ==
    <<<<"o","n","e">>,
      <<"t","w","o">>,
      <<"t","h","r","e","e">>,
      <<"f","o","u","r">>,
      <<"f","i","v","e">>,
      <<"s","i","x">>,
      <<"s","e","v","e","n">>,
      <<"e","i","g","h","t">>,
      <<"n","i","n","e">>,
      <<"t","e","n">>>>

studio == <<"s","t","u","d","i","o">>

bed == <<"b","e","d">>

\* re.search(r"\bstudio\b", text)
SearchStudio(text) ==
    \E i \in 1..Len(text) :
        /\ WordBoundary(text, i)
        /\ StartsWithAt(text, i, studio)
        /\ WordBoundary(text, i + Len(studio))

\* bed(?:room)?s?\b matches text from position k on
BedWordAt(text, k) ==
    /\ StartsWithAt(text, k, bed)
    /\ \E rest \in {<<>>, <<"s">>, <<"r","o","o","m">>, <<"r","o","o","m","s">>} :
          /\ StartsWithAt(text, k + 3, rest)
          /\ WordBoundary(text, k + 3 + Len(rest))

\* \s*[-\s]?\s* matches exactly text[j..k-1]: whitespace with at most one hyphen
SeparatorBetween(text, j, k) ==
    /\ j <= k
    /\ \A p \in j..(k - 1) : text[p] \in Whitespace \cup {"-"}
    /\ Cardinality({p \in j..(k - 1) : text[p] = "-"}) <= 1

\* (\d+)\s*[-\s]?\s*bed(?:room)?s?\b matches text from position i on
NumericBedAt(text, i) ==
    /\ i \in 1..Len(text)
    /\ text[i] \in Digits
    /\ LET j == i + Len(LeadingDigits(SubSeq(text, i, Len(text))))
       IN  \E k \in j..Len(text) : SeparatorBetween(text, j, k) /\ BedWordAt(text, k)

\* re.search(rf"\b{word}\s*[-\s]?\s*bed(?:room)?s?\b", text)
SearchWordBed(word, text) ==
    \E i \in 1..Len(text) :
        /\ WordBoundary(text, i)
        /\ StartsWithAt(text, i, word)
        /\ \E k \in (i + Len(word))..Len(text) :
              SeparatorBetween(text, i + Len(word), k) /\ BedWordAt(text, k)

\* faulty variant of ExtractBedrooms: a text without a bedroom count gives 0
ExtractBedroomsUnknownIsZero(text) ==
    IF text = <<>> THEN 0
    ELSE LET t == Lower(text)
         IN  IF SearchStudio(t) THEN 0
             ELSE IF \E i \in 1..Len(t) : NumericBedAt(t, i)
             THEN LET i == CHOOSE m \in 1..Len(t) :
                              NumericBedAt(t, m) /\ \A n \in 1..(m - 1) : ~NumericBedAt(t, n)
                  IN  ToInt(LeadingDigits(SubSeq(t, i, Len(t))))
             ELSE IF \E n \in 1..Len(WORD_TO_NUM) : SearchWordBed(WORD_TO_NUM[n], t)
             THEN CHOOSE n \in 1..Len(WORD_TO_NUM) :
                      /\ SearchWordBed(WORD_TO_NUM[n], t)
                      /\ \A m \in 1..(n - 1) : ~SearchWordBed(WORD_TO_NUM[m], t)
             ELSE 0

\* BaseScraper._extract_bedrooms: re.search returns the leftmost match, the
\* loop over WORD_TO_NUM the first word of the dictionary that matches
ExtractBedrooms(text) ==
    IF text = <<>> THEN -1
    ELSE LET t == Lower(text)
         IN  IF SearchStudio(t) THEN 0
             ELSE IF \E i \in 1..Len(t) : NumericBedAt(t, i)
             THEN LET i == CHOOSE m \in 1..Len(t) :
                              NumericBedAt(t, m) /\ \A n \in 1..(m - 1) : ~NumericBedAt(t, n)
                  IN  ToInt(LeadingDigits(SubSeq(t, i, Len(t))))
             ELSE IF \E n \in 1..Len(WORD_TO_NUM) : SearchWordBed(WORD_TO_NUM[n], t)
             THEN CHOOSE n \in 1..Len(WORD_TO_NUM) :
                      /\ SearchWordBed(WORD_TO_NUM[n], t)
                      /\ \A m \in 1..(n - 1) : ~SearchWordBed(WORD_TO_NUM[m], t)
             ELSE -1

(***************************************************************************)
(* Inputs of the field extractors                                          *)
(***************************************************************************)
PricePrefixes ==
    {<<>>,
     <<"euro">>,
     <<"f","r","o","m"," ","euro">>}

PriceAmounts ==
    {<<"1",",","8","0","0">>,
     <<"1","8","0","0">>,
     <<"4","5","0">>,
     <<"9","9">>,
     <<"5","0">>,
     <<"1"," ","8","0","0">>,
     <<"1",".","8","0","0">>,
     <<>>,
     <<"0">>}

PriceSuffixes ==
    {<<>>,
     <<" ","p","e","r"," ","m","o","n","t","h">>,
     <<" ","p","e","r"," ","w","e","e","k">>,
     <<"p","w">>,
     <<"/","w","e","e","k">>,
     <<" ","p","/","w">>,
     <<" ","w","e","e","k","l","y">>,
     <<" ","E","U","R">>,
     <<" ","P","W">>,
     <<" ","f","o","r"," ","2">>}

\* the price strings _normalize_price is called with
PriceTexts == {p \o a \o x : p \in PricePrefixes, a \in PriceAmounts, x \in PriceSuffixes}

BedLeads ==
    {<<>>,
     <<"l","o","v","e","l","y"," ">>,
     <<"S","t","u","d","i","o"," ">>,
     <<"s","t","u","d","i","o","s"," ">>}

BedNumbers ==
    {<<"2">>,
     <<"1","2">>,
     <<"t","w","o">>,
     <<"t","h","r","e","e">>,
     <<"t","e","n">>,
     <<>>,
     <<"t","w","e","n","t","y">>}

BedSeparators ==
    {<<>>,
     <<" ">>,
     <<"-">>,
     <<" ","-"," ">>,
     <<"-","-">>}

BedWords ==
    {<<"b","e","d">>,
     <<"b","e","d","s">>,
     <<"b","e","d","r","o","o","m">>,
     <<"b","e","d","r","o","o","m","s">>,
     <<"b","e","d","s","i","t">>,
     <<"B","E","D">>,
     <<"f","l","a","t">>,
     <<"h","o","m","e">>}

BedTrails ==
    {<<>>,
     <<" ","a","p","a","r","t","m","e","n","t">>,
     <<" ","h","o","u","s","e">>}

\* the texts _extract_bedrooms is called with
BedTexts ==
    {l \o n \o s \o w \o t :
        l \in BedLeads, n \in BedNumbers, s \in BedSeparators, w \in BedWords, t \in BedTrails}

(***************************************************************************)
(* The field extractors, each run calling one of them on one input         *)
(***************************************************************************)
\* str.upper() of one character
UpperChar(c) ==
    IF \E i \in 1..26 : LowerAlphabet[i] = c
    THEN UpperAlphabet[CHOOSE i \in 1..26 : LowerAlphabet[i] = c]
    ELSE c

\* str.split(): the maximal runs of non-whitespace characters
RECURSIVE SplitWhitespace(_)
SplitWhitespace(s) ==
    LET t == LStrip(s)
    IN  IF t = <<>> THEN <<>>
        ELSE LET ends == {k \in 1..Len(t) : k = Len(t) \/ t[k + 1] \in Whitespace}
                 e == CHOOSE k \in ends : \A j \in ends : k <= j
             IN  <<SubSeq(t, 1, e)>> \o SplitWhitespace(SubSeq(t, e + 1, Len(t)))

\* str.title(): a letter that follows no letter is upper-cased, every other
\* letter is lower-cased
Title(s) ==
    [i \in 1..Len(s) |->
        IF i > 1 /\ s[i - 1] \in Letters THEN LowerChar(s[i]) ELSE UpperChar(s[i])]

\* the end of the match of \bCo\.?\s* (re.IGNORECASE) that starts at
\* text[i], 0 when there is none: the dot is optional and greedy, the
\* whitespace run is taken whole
CoMatchEnd(text, i) ==
    IF /\ i + 1 <= Len(text)
       /\ WordBoundary(text, i)
       /\ LowerChar(text[i]) = "c"
       /\ LowerChar(text[i + 1]) = "o"
    THEN LET d == IF i + 2 <= Len(text) /\ text[i + 2] = "." THEN i + 2 ELSE i + 1
             stops == {k \in d..Len(text) :
                          /\ \A j \in (d + 1)..k : text[j] \in Whitespace
                          /\ (k = Len(text) \/ text[k + 1] \notin Whitespace)}
         IN  CHOOSE k \in stops : TRUE
    ELSE 0

\* re.sub(r"\bCo\.?\s*", "", text, flags=re.IGNORECASE) from position i on:
\* every match removed, scanning left to right
RECURSIVE SubCo(_, _)
SubCo(text, i) ==
    IF i > Len(text) THEN <<>>
    ELSE IF CoMatchEnd(text, i) # 0 THEN SubCo(text, CoMatchEnd(text, i) + 1)
    ELSE <<text[i]>> \o SubCo(text, i + 1)

\* BaseScraper._normalize_area
NormalizeArea(area_str) ==
    IF area_str = <<>> THEN <<>>
    ELSE Title(JoinSpace(SplitWhitespace(SubCo(Strip(area_str), 1))))

\* area texts: a name, with and without a "Co." qualifier and outer whitespace
AreaLeads == {<<>>, <<" ">>, <<"C","o","."," ">>, <<"c","o"," ">>, <<"C","O",".">>, <<"C","o","."," "," ">>}

AreaNames == {<<"D","u","b","l","i","n">>,
     <<"C","o","r","k">>,
     <<"C","o","o","l","o","c","k">>,
     <<"D","u","b","l","i","n"," "," ","6","w">>,
     <<"D","u","n"," ","L","a","o","g","h","a","i","r","e">>,
     <<"C","o","C","o">>,
     <<"C","o","c","o","r","k">>,
     <<"o","'","b","r","i","e","n">>,
     <<"N","o","r","t","h"," ","C","o"," ","D","u","b","l","i","n">>,
     <<"D","i","s","c","o"," ","I","n","n">>,
     <<>>}

AreaTrails == {<<>>, <<" ">>, <<" ","C","o",".">>, <<"\t">>}

AreaTexts == {l \o n \o t : l \in AreaLeads, n \in AreaNames, t \in AreaTrails}

InitExtract ==
    /\ searches = <<>>
    /\ filters = LoadFilters(<<>>)
    /\ listing = Daft1
    /\ called = <<>>
    /\ match_result = <<>>
    /\ area_result = <<>>
    /\ AggregatorIdle

CallNormalizePrice(price_str) ==
    /\ extract = <<>>
    /\ extract' = [op |-> "_normalize_price", text |-> price_str,
                   result |-> NormalizePrice(price_str)]
    /\ UNCHANGED <<filterVars, fetchVars, storeVars, scrape, serverVars>>

CallExtractBedrooms(text) ==
    /\ extract = <<>>
    /\ extract' = [op |-> "_extract_bedrooms", text |-> text,
                   result |-> ExtractBedrooms(text)]
    /\ UNCHANGED <<filterVars, fetchVars, storeVars, scrape, serverVars>>

\* scraper._normalize_area(area_str)
CallNormalizeArea(area_str) ==
    /\ extract = <<>>
    /\ extract' = [op |-> "_normalize_area", text |-> area_str,
                   result |-> NormalizeArea(area_str)]
    /\ UNCHANGED <<filterVars, fetchVars, storeVars, scrape, serverVars>>

NextExtract ==
    \/ \E t \in PriceTexts : CallNormalizePrice(t)
    \/ \E t \in BedTexts : CallExtractBedrooms(t)
    \/ \E t \in AreaTexts : CallNormalizeArea(t)

SpecExtract == InitExtract /\ [][NextExtract]_vars

(***************************************************************************)
(* Claims about the field extractors (SpecExtract)                         *)
(***************************************************************************)
Txt_1800PerMonth == <<"euro","1",",","8","0","0"," ","p","e","r"," ","m","o","n","t","h">>

Txt_1800EUR == <<"1",",","8","0","0"," ","E","U","R">>

Txt_450PerWeek == <<"euro","4","5","0"," ","p","e","r"," ","w","e","e","k">>

Txt_1Dot800Weekly == <<"euro","1",".","8","0","0"," ","w","e","e","k","l","y">>

PriceReturned == extract # <<>> /\ extract.op = "_normalize_price"

\* the digit runs of a text once the thousands separators are removed
SeparatorFreeRuns(text) == FindAllDigitRuns(RemoveAll(text, <<",">>))

\* the leading digit run, joined with the second run when it is below 100
\* and a second run exists
PrimaryAmount(text) ==
    LET runs == SeparatorFreeRuns(text)
    IN  IF ToInt(runs[1]) < 100 /\ Len(runs) >= 2
        THEN ToInt(runs[1] \o runs[2])
        ELSE ToInt(runs[1])

HasWeeklyKeyword(text) == \E w \in WeeklyKeywords : Contains(Lower(text), w)

\* the rule of the price normalizer: 0 without a digit run, else the primary
\* amount, times 4.33 and truncated for a weekly price
PriceRule ==
    PriceReturned
    => extract.result =
          IF SeparatorFreeRuns(extract.text) = <<>> THEN 0
          ELSE IF HasWeeklyKeyword(extract.text)
               THEN (PrimaryAmount(extract.text) * 433) \div 100
               ELSE PrimaryAmount(extract.text)

PriceExample(text, price) ==
    (PriceReturned /\ extract.text = text) => extract.result = price

\* C13 as stated: the rule of the price normalizer holds, and the three
\* examples give 1800, 1800 and 1949
C13_PriceRuleWith1949 ==
    /\ PriceRule
    /\ PriceExample(Txt_1800PerMonth, 1800)
    /\ PriceExample(Txt_1800EUR, 1800)
    /\ PriceExample(Txt_450PerWeek, 1949)

\* C13 amended: the rule of the price normalizer holds, and the three
\* examples give 1800, 1800 and 1948 (450 * 4.33 = 1948.5, truncated)
C13_PriceRuleWith1948 ==
    /\ PriceRule
    /\ PriceExample(Txt_1800PerMonth, 1800)
    /\ PriceExample(Txt_1800EUR, 1800)
    /\ PriceExample(Txt_450PerWeek, 1948)

\* C13 witness: a weekly price whose first digit run is below 100 and is
\* joined with the second one was normalized: 1800 * 4.33 = 7794
C13_Witness ==
    /\ PriceReturned
    /\ extract.text = Txt_1Dot800Weekly
    /\ extract.result = 7794

Txt_2BedApartment == <<"2"," ","b","e","d"," ","a","p","a","r","t","m","e","n","t">>

Txt_StudioFlat == <<"S","t","u","d","i","o"," ","f","l","a","t">>

Txt_ThreeBedroomHouse == <<"t","h","r","e","e"," ","b","e","d","r","o","o","m"," ","h","o","u","s","e">>

Txt_LovelyHome == <<"l","o","v","e","l","y"," ","h","o","m","e">>

BedroomsReturned == extract # <<>> /\ extract.op = "_extract_bedrooms"

\* the numbers n of the numeric patterns "<n> bed(room)(s)" in a text
NumericBedCounts(t) ==
    {ToInt(LeadingDigits(SubSeq(t, i, Len(t)))) : i \in {m \in 1..Len(t) : NumericBedAt(t, m)}}

\* the numbers spelled out before bed/bedroom in a text
SpelledBedCounts(t) == {n \in 1..Len(WORD_TO_NUM) : SearchWordBed(WORD_TO_NUM[n], t)}

BedroomExample(text, n) ==
    (BedroomsReturned /\ extract.text = text) => extract.result = n

\* C14: _extract_bedrooms returns 0 for a text with the whole word studio,
\* otherwise the n of a numeric pattern, otherwise the n of a spelled-out
\* number before bed/bedroom, otherwise the unknown result -1; the four
\* examples give 2, 0, 3 and -1
C14_BedroomCascade ==
    /\ BedroomsReturned =>
          LET t == Lower(extract.text)
          IN  IF SearchStudio(t) THEN extract.result = 0
              ELSE IF NumericBedCounts(t) # {} THEN extract.result \in NumericBedCounts(t)
              ELSE IF SpelledBedCounts(t) # {} THEN extract.result \in SpelledBedCounts(t)
              ELSE extract.result = -1
    /\ BedroomExample(Txt_2BedApartment, 2)
    /\ BedroomExample(Txt_StudioFlat, 0)
    /\ BedroomExample(Txt_ThreeBedroomHouse, 3)
    /\ BedroomExample(Txt_LovelyHome, -1)

\* C14 witness: a text without studio, number or bed word gave -1
C14_Witness ==
    /\ BedroomsReturned
    /\ extract.text = Txt_LovelyHome
    /\ extract.result = -1

(***************************************************************************)
(* scrapers/*.py : fetch_listings of the three adapters                    *)
(*                                                                         *)
(* What a source serves for one request is a response: kind "listings" (a  *)
(* document that parses to the listings given), "empty" (a document with   *)
(* no listing), "network_error" (the request raises) or "malformed" (the   *)
(* document cannot be parsed; a feed may still yield some entries).  The   *)
(* steps of an invocation are recorded as a trace of request and           *)
(* rate_limit events.                                                      *)
(***************************************************************************)
\* config.get("rate_limit_seconds", 2)
DefaultRateLimit == 2

\* BaseScraper.__init__: self.rate_limit_seconds
RateLimitSeconds(config) ==
    IF "rate_limit_seconds" \in DOMAIN config
    THEN config.rate_limit_seconds
    ELSE DefaultRateLimit

\* the n-th outbound request of an invocation
RequestEvent(n) == [ev |-> "request", n |-> n]

\* BaseScraper._rate_limit: time.sleep(self.rate_limit_seconds)
RateLimitEvent(config) == [ev |-> "rate_limit", n |-> RateLimitSeconds(config)]

\* DaftScraper._fetch_page: every exception is caught, the page then
\* contributes no listing
DaftFetchPage(response) ==
    IF response.kind = "listings" THEN response.listings ELSE <<>>

\* "for page in range(1, 4)"
DaftLastPage == 3

\* DaftScraper.fetch_listings from page on: an empty page ends the loop
RECURSIVE DaftLoop(_, _, _, _, _)
DaftLoop(config, pages, page, listings, trace) ==
    IF page > DaftLastPage
    THEN [listings |-> listings, trace |-> trace, raised |-> FALSE]
    ELSE LET page_listings == DaftFetchPage(pages[page])
             requested == Append(trace, RequestEvent(page))
         IN  IF page_listings = <<>>
             THEN [listings |-> listings, trace |-> requested, raised |-> FALSE]
             ELSE DaftLoop(config, pages, page + 1, listings \o page_listings,
                           Append(requested, RateLimitEvent(config)))

\* DaftScraper.fetch_listings
DaftFetchListings(config, pages) == DaftLoop(config, pages, 1, <<>>, <<>>)

\* MyHomeScraper._fetch_page: every exception is caught, the page then
\* contributes no listing
MyHomeFetchPage(response) ==
    IF response.kind = "listings" THEN response.listings ELSE <<>>

\* MyHomeScraper.fetch_listings: the second page is fetched when the first
\* one yielded listings
MyHomeFetchListings(config, pages) ==
    LET page1_listings == MyHomeFetchPage(pages[1])
    IN  IF page1_listings = <<>>
        THEN [listings |-> <<>>, trace |-> <<RequestEvent(1)>>, raised |-> FALSE]
        ELSE [listings |-> page1_listings \o MyHomeFetchPage(pages[2]),
              trace |-> <<RequestEvent(1), RateLimitEvent(config), RequestEvent(2)>>,
              raised |-> FALSE]

\* RentIeScraper._parse_feed: feedparser.parse raises on some network
\* errors; a malformed (bozo) feed still yields the entries it could read
RentIeParseFeed(response) ==
    IF response.kind = "network_error"
    THEN [raised |-> TRUE, listings |-> <<>>]
    ELSE [raised |-> FALSE, listings |-> response.listings]

\* faulty variant of AddByUrl: a listing whose url is already a key replaces
\* the one stored
RECURSIVE AddByUrlKeepsLast(_, _)
AddByUrlKeepsLast(listings_by_url, feed_listings) ==
    IF feed_listings = <<>> THEN listings_by_url
    ELSE LET l == Head(feed_listings)
         IN  IF l.url = <<>> THEN AddByUrlKeepsLast(listings_by_url, Tail(feed_listings))
             ELSE IF \A i \in 1..Len(listings_by_url) : listings_by_url[i].url # l.url
             THEN AddByUrlKeepsLast(Append(listings_by_url, l), Tail(feed_listings))
             ELSE AddByUrlKeepsLast(
                      [i \in 1..Len(listings_by_url) |->
                          IF listings_by_url[i].url = l.url THEN l ELSE listings_by_url[i]],
                      Tail(feed_listings))

\* "if listing.url and listing.url not in listings_by_url", for every
\* listing of one feed; the dict keeps insertion order
RECURSIVE AddByUrl(_, _)
AddByUrl(listings_by_url, feed_listings) ==
    IF feed_listings = <<>> THEN listings_by_url
    ELSE LET l == Head(feed_listings)
         IN  IF l.url # <<>> /\ \A i \in 1..Len(listings_by_url) : listings_by_url[i].url # l.url
             THEN AddByUrl(Append(listings_by_url, l), Tail(feed_listings))
             ELSE AddByUrl(listings_by_url, Tail(feed_listings))

\* RentIeScraper.fetch_listings from the i-th feed url on: an exception of
\* _parse_feed is logged and the loop continues with the next feed
RECURSIVE RentIeLoop(_, _, _, _, _)
RentIeLoop(config, feeds, i, listings_by_url, trace) ==
    IF i > Len(feeds)
    THEN [listings |-> listings_by_url, trace |-> trace, raised |-> FALSE]
    ELSE LET parsed == RentIeParseFeed(feeds[i])
             requested == Append(trace, RequestEvent(i))
         IN  IF parsed.raised
             THEN RentIeLoop(config, feeds, i + 1, listings_by_url, requested)
             ELSE RentIeLoop(config, feeds, i + 1,
                             AddByUrl(listings_by_url, parsed.listings),
                             Append(requested, RateLimitEvent(config)))

\* RentIeScraper.fetch_listings
RentIeFetchListings(config, feeds) == RentIeLoop(config, feeds, 1, <<>>, <<>>)

(***************************************************************************)
(* scrapers/*.py : parsing one source document                             *)
(*                                                                         *)
(* A document is given by the listings each extraction strategy finds in   *)
(* it.                                                                     *)
(***************************************************************************)
\* DaftScraper._extract_listings_from_html: __NEXT_DATA__ first, the HTML
\* cards when it yields nothing
DaftExtractListingsFromHtml(doc) ==
    IF doc.next_data # <<>>
    THEN [listings |-> doc.next_data, strategies |-> <<"next_data">>]
    ELSE [listings |-> doc.markup, strategies |-> <<"next_data", "markup">>]

\* MyHomeScraper._extract_json_from_html: JSON-LD, __NEXT_DATA__ and the
\* window.__DATA__ patterns all append to one list
MyHomeExtractJsonFromHtml(doc) == doc.json_ld \o doc.next_data \o doc.window_data

\* MyHomeScraper._fetch_page for an HTML response: embedded JSON first,
\* _parse_html_response when it yields nothing
MyHomeParsePage(doc) ==
    LET json_listings == MyHomeExtractJsonFromHtml(doc)
    IN  IF json_listings # <<>>
        THEN [listings |-> json_listings,
              strategies |-> <<"json_ld", "next_data", "window_data">>]
        ELSE [listings |-> doc.markup,
              strategies |-> <<"json_ld", "next_data", "window_data", "markup">>]

(***************************************************************************)
(* Inputs of the adapters                                                  *)
(***************************************************************************)
Daft3 == SourceListing("daft_3", "daft", 2500, <<"u","7">>)
MyHome3 == SourceListing("myhome_3", "myhome", 2500, <<"u","8">>)
Rent3 == SourceListing("rent_ie_3", "rent_ie", 900, <<"u","9">>)

\* the ad of Rent1 as a later feed shows it: same link, another price
Rent1Again == SourceListing("rent_ie_1", "rent_ie", 2600, <<"u","3">>)

\* config["scrapers"][name]: with and without rate_limit_seconds
AdapterConfigs ==
    {[enabled |-> TRUE],
     [enabled |-> TRUE, rate_limit_seconds |-> 1],
     [enabled |-> TRUE, rate_limit_seconds |-> 5]}

\* what a source may answer to one request for a page with these listings
PageResponses(listings) ==
    {[kind |-> "listings", listings |-> listings],
     [kind |-> "empty", listings |-> <<>>],
     [kind |-> "network_error", listings |-> <<>>],
     [kind |-> "malformed", listings |-> <<>>]}

\* the answers to the three page requests of Daft
DaftPages ==
    {<<a, b, c>> : a \in PageResponses(<<Daft1, Daft2>>),
                   b \in PageResponses(<<Daft3>>),
                   c \in PageResponses(<<Daft1>>)}

\* the answers to the two page requests of MyHome
MyHomePages ==
    {<<a, b>> : a \in PageResponses(<<MyHome1, MyHome2>>),
                b \in PageResponses(<<MyHome3>>)}

\* what Rent.ie may answer to one feed request
FeedResponses ==
    {[kind |-> "listings", listings |-> <<Rent1, Rent2>>],
     [kind |-> "listings", listings |-> <<Rent2, Rent1Again>>],
     [kind |-> "listings", listings |-> <<Rent3, Rent3>>],
     [kind |-> "empty", listings |-> <<>>],
     [kind |-> "malformed", listings |-> <<Rent1Again>>],
     [kind |-> "network_error", listings |-> <<>>]}

\* _get_feed_urls yields at most this many feed urls
MaxFeeds == 3

\* the answers to the feed requests of Rent.ie, one per feed url
RentIeFeeds == UNION {[1..n -> FeedResponses] : n \in 1..MaxFeeds}

DaftDocuments ==
    {[next_data |-> n, markup |-> m] :
        n \in {<<>>, <<Daft1>>, <<Daft1, Daft2>>},
        m \in {<<>>, <<Daft1>>, <<Daft3, Daft2>>}}

MyHomeDocuments ==
    {[json_ld |-> j, next_data |-> n, window_data |-> w, markup |-> m] :
        j \in {<<>>, <<MyHome1>>},
        n \in {<<>>, <<MyHome1, MyHome2>>},
        w \in {<<>>, <<MyHome2>>},
        m \in {<<>>, <<MyHome1>>, <<MyHome3>>}}

(***************************************************************************)
(* The adapters, each run making one call                                  *)
(***************************************************************************)
InitScrape ==
    /\ searches = <<>>
    /\ filters = LoadFilters(<<>>)
    /\ listing = Daft1
    /\ called = <<>>
    /\ match_result = <<>>
    /\ area_result = <<>>
    /\ AggregatorIdle

\* one call of fetch_listings of the adapter named, with its outcome
Fetched(adapter, config, served, outcome) ==
    /\ scrape = <<>>
    /\ scrape' = [op |-> "fetch_listings", adapter |-> adapter, config |-> config,
                  served |-> served, listings |-> outcome.listings,
                  trace |-> outcome.trace, raised |-> outcome.raised]
    /\ UNCHANGED <<filterVars, fetchVars, storeVars, extract, serverVars>>

CallDaftFetchListings(config, pages) ==
    Fetched("daft", config, pages, DaftFetchListings(config, pages))

CallMyHomeFetchListings(config, pages) ==
    Fetched("myhome", config, pages, MyHomeFetchListings(config, pages))

CallRentIeFetchListings(config, feeds) ==
    Fetched("rent_ie", config, feeds, RentIeFetchListings(config, feeds))

\* one source document parsed by the adapter named, with its outcome
Parsed(adapter, doc, outcome) ==
    /\ scrape = <<>>
    /\ scrape' = [op |-> "parse", adapter |-> adapter, served |-> doc,
                  listings |-> outcome.listings, strategies |-> outcome.strategies]
    /\ UNCHANGED <<filterVars, fetchVars, storeVars, extract, serverVars>>

CallDaftExtractListingsFromHtml(doc) == Parsed("daft", doc, DaftExtractListingsFromHtml(doc))

CallMyHomeParsePage(doc) == Parsed("myhome", doc, MyHomeParsePage(doc))

NextScrape ==
    \/ \E c \in AdapterConfigs, p \in DaftPages : CallDaftFetchListings(c, p)
    \/ \E c \in AdapterConfigs, p \in MyHomePages : CallMyHomeFetchListings(c, p)
    \/ \E c \in AdapterConfigs, f \in RentIeFeeds : CallRentIeFetchListings(c, f)
    \/ \E d \in DaftDocuments : CallDaftExtractListingsFromHtml(d)
    \/ \E d \in MyHomeDocuments : CallMyHomeParsePage(d)

SpecScrape == InitScrape /\ [][NextScrape]_vars

(***************************************************************************)
(* Claims about the adapters (SpecScrape)                                  *)
(***************************************************************************)
FetchReturned == scrape # <<>> /\ scrape.op = "fetch_listings"

ParseReturned == scrape # <<>> /\ scrape.op = "parse"

\* a response that is a network error or a malformed document
FailedResponse(r) == r.kind \in {"network_error", "malformed"}

\* the positions of the request events in the trace of the invocation
RequestPositions == {i \in 1..Len(scrape.trace) : scrape.trace[i].ev = "request"}

\* the requests the invocation issued, by number
RequestsIssued == {scrape.trace[i].n : i \in RequestPositions}

\* the k-th request was issued and is the first one that failed
FirstFailureAt(k) ==
    /\ k \in RequestsIssued
    /\ FailedResponse(scrape.served[k])
    /\ \A j \in 1..(k - 1) : ~FailedResponse(scrape.served[j])

\* the listings served by the requests before the k-th, in order
RECURSIVE ServedBefore(_, _)
ServedBefore(served, k) ==
    IF k <= 1 THEN <<>> ELSE ServedBefore(served, k - 1) \o served[k - 1].listings

\* what an adapter has collected from the requests before the k-th
CollectedBefore(k) ==
    IF scrape.adapter = "rent_ie"
    THEN AddByUrl(<<>>, ServedBefore(scrape.served, k))
    ELSE ServedBefore(scrape.served, k)

\* the invocation stopped at its first failed request and returned what
\* it had collected before
TruncatedAtFirstFailure ==
    \A k \in 1..Len(scrape.served) :
        FirstFailureAt(k)
        => /\ RequestsIssued \subseteq 1..k
           /\ ~scrape.raised
           /\ scrape.listings = CollectedBefore(k)

\* C15: when the k-th request of an invocation of fetch_listings (Daft,
\* MyHome, Rent.ie) fails, no further request is issued, nothing is raised
\* and the listings collected before the k-th request are returned
C15_FailureTruncatesInvocation == FetchReturned => TruncatedAtFirstFailure

\* C16: in every invocation of fetch_listings a _rate_limit delay lies
\* between any two successive requests, whatever the earlier request gave,
\* and every delay is the one of the adapter's own configuration
C16_DelayBetweenRequests ==
    FetchReturned
    => /\ \A i, j \in RequestPositions :
             i < j => \E m \in (i + 1)..(j - 1) : scrape.trace[m].ev = "rate_limit"
       /\ \A m \in 1..Len(scrape.trace) :
             scrape.trace[m].ev = "rate_limit"
             => scrape.trace[m].n = RateLimitSeconds(scrape.config)

\* the extraction strategies of an adapter in priority order, the markup
\* fallback last
StrategyOrder(adapter) ==
    IF adapter = "daft" THEN <<"next_data", "markup">>
    ELSE <<"json_ld", "next_data", "window_data", "markup">>

\* C17: parsing one document returns exactly the records of the first
\* strategy in priority order that yields a record; the strategies after
\* it are not run, and the markup fallback runs only when every
\* structured-data strategy yielded nothing
C17_FirstYieldingStrategyOnly ==
    ParseReturned
    => LET order == StrategyOrder(scrape.adapter)
           yielding == {n \in 1..Len(order) : scrape.served[order[n]] # <<>>}
       IN  IF yielding = {}
           THEN scrape.listings = <<>> /\ scrape.strategies = order
           ELSE LET first == CHOOSE n \in yielding : \A m \in yielding : n <= m
                IN  /\ scrape.listings = scrape.served[order[first]]
                    /\ scrape.strategies = SubSeq(order, 1, first)

\* the listings the feeds of the invocation yielded, in the order met
Encountered == ServedBefore(scrape.served, Len(scrape.served) + 1)

\* the first listing with this url in a sequence
FirstWithUrl(seq, url) ==
    seq[CHOOSE i \in 1..Len(seq) :
            seq[i].url = url /\ \A j \in 1..(i - 1) : seq[j].url # url]

\* C18: the list one invocation of RentIeScraper.fetch_listings returns
\* holds no two listings with the same url, and the listing it holds for a
\* url is the first one the feeds yielded with that url
C18_UniqueUrlFirstKept ==
    (FetchReturned /\ scrape.adapter = "rent_ie")
    => /\ \A i, j \in 1..Len(scrape.listings) :
             i # j => scrape.listings[i].url # scrape.listings[j].url
       /\ \A i \in 1..Len(scrape.listings) :
             scrape.listings[i] = FirstWithUrl(Encountered, scrape.listings[i].url)

\* C18 witness: three feeds were queried, the first yielded Rent1, a later
\* one the same ad with another price and one an ad twice; the result holds
\* Rent1 as first met and each url once
C18_Witness ==
    /\ FetchReturned
    /\ scrape.adapter = "rent_ie"
    /\ Len(scrape.served) = 3
    /\ scrape.served[1].listings = <<Rent1, Rent2>>
    /\ \E k \in 2..3 : \E i \in 1..Len(scrape.served[k].listings) :
          scrape.served[k].listings[i] = Rent1Again
    /\ \E k \in 2..3 : scrape.served[k].listings = <<Rent3, Rent3>>
    /\ scrape.listings = <<Rent1, Rent2, Rent3>>

(***************************************************************************)
(* FilterManager.get_nice_to_have_score (src/core/filter.py)               *)
(***************************************************************************)
\* f"{' '.join(features)} {description}" of get_nice_to_have_score, both
\* parts lowercased
FeatureText(l) == JoinSpace(LowerAll(l.features)) \o <<" ">> \o Lower(l.description)

\* the inner loop of get_nice_to_have_score: one point for every entry of
\* the list that occurs in the text
NiceCount(nice_to_have, feature_text) ==
    Cardinality({i \in 1..Len(nice_to_have) : Contains(feature_text, nice_to_have[i])})

\* FilterManager.get_nice_to_have_score: the outer loop over self.filters
RECURSIVE GetNiceToHaveScore(_, _)
GetNiceToHaveScore(fs, l) ==
    IF fs = <<>> THEN 0
    ELSE NiceCount(Head(fs).nice_to_have, FeatureText(l))
         + GetNiceToHaveScore(Tail(fs), l)

\* the "nice_to_have" lists of the profiles scored
NiceLists == {<<>>, <<Txt_parking>>, <<Txt_Parking, Txt_Balcony>>, <<Txt_parking, Txt_parking>>}

\* profiles that differ in "active" and "nice_to_have" only
ScoreProfiles ==
    {[Profile("scored", a, 0, Infinity, 0, Infinity, <<>>, <<>>, <<>>, <<>>)
        EXCEPT !.nice_to_have = n] : a \in BOOLEAN, n \in NiceLists}

ScoreConfigs == UNION {[1..n -> ScoreProfiles] : n \in 0..MaxProfiles}

ScoreListings ==
    {Listing("daft_9", "daft", 1500, 2, Txt_Dublin, Txt_MainSt, Txt_Apartment,
             Txt_Flat, d, f, <<"u","9">>) :
        d \in {<<>>, Txt_QuietParking},
        f \in {<<>>, <<Txt_Balcony>>, <<Txt_Parking, Txt_Balcony>>}}

InitScore ==
    /\ searches \in ScoreConfigs
    /\ filters = LoadFilters(searches)
    /\ listing \in ScoreListings
    /\ called = <<>>
    /\ match_result = <<>>
    /\ area_result = <<>>
    /\ AggregatorIdle

\* FilterManager(config).get_nice_to_have_score(listing)
CallGetNiceToHaveScore ==
    /\ extract = <<>>
    /\ extract' = [op |-> "get_nice_to_have_score", text |-> FeatureText(listing),
                   result |-> GetNiceToHaveScore(filters, listing)]
    /\ UNCHANGED <<filterVars, fetchVars, storeVars, scrape, serverVars>>

NextScore == CallGetNiceToHaveScore

SpecScore == InitScore /\ [][NextScore]_vars

(***************************************************************************)
(* Claims about the nice-to-have score (SpecScore)                         *)
(***************************************************************************)
ScoreReturned == extract # <<>> /\ extract.op = "get_nice_to_have_score"

\* the union of the loaded profiles' nice-to-have sets
NiceUnion == UNION {{filters[i].nice_to_have[j] : j \in 1..Len(filters[i].nice_to_have)} : i \in 1..Len(filters)}

\* C19: get_nice_to_have_score returns the number of distinct keywords of
\* the union of the loaded profiles' nice-to-have sets that occur in the
\* listing's features and description text, so a keyword two profiles
\* configure and the listing has adds 1, not 2
C19_ScoreCountsUnion ==
    ScoreReturned =>
        extract.result = Cardinality({k \in NiceUnion : Contains(extract.text, k)})

(***************************************************************************)
(* Claims about the range checks of SearchFilter.matches (SpecFilter)      *)
(***************************************************************************)
\* matches returned a rejection whose reason belongs to the given check
RejectedBy(check) ==
    /\ MatchesReturned
    /\ ~match_result[1].matches
    /\ ReasonCheck(match_result[1].reason) = check

\* v lies inside the inclusive range [lo, hi]
InsideRange(v, lo, hi) == lo <= v /\ v <= hi

\* C20: in SearchFilter.matches an unknown value never causes a range
\* rejection: price 0 is never rejected by the price check and bedrooms -1
\* never by the bedroom check, for every profile; bedrooms 0 is a known
\* studio and is checked against [min_beds, max_beds]; a known value passes
\* its check exactly when it lies inside the inclusive range (the bedroom
\* check runs once the price check has passed)
C20_UnknownNeverRangeRejected ==
    MatchesReturned =>
        LET p == CalledProfile
        IN  /\ listing.price = 0 => ~RejectedBy("price")
            /\ listing.bedrooms = -1 => ~RejectedBy("bedrooms")
            /\ listing.price > 0 =>
                   (RejectedBy("price")
                        <=> ~InsideRange(listing.price, p.min_price, p.max_price))
            /\ (listing.bedrooms >= 0 /\ ~RejectedBy("price")) =>
                   (RejectedBy("bedrooms")
                        <=> ~InsideRange(listing.bedrooms, p.min_beds, p.max_beds))

\* C20 witness: a listing of unknown price with 0 bedrooms, checked against
\* a profile that asks for at least one bedroom, is rejected by the bedroom
\* check and not by the price check
C20_Witness ==
    /\ MatchesReturned
    /\ listing.price = 0
    /\ listing.bedrooms = 0
    /\ CalledProfile.min_beds = 1
    /\ CalledProfile.min_price > 0
    /\ RejectedBy("bedrooms")

(***************************************************************************)
(* Claims about the area normalizer (SpecExtract)                          *)
(***************************************************************************)
AreaReturned == extract # <<>> /\ extract.op = "_normalize_area"

\* the text holds the qualifier token "Co." in some casing
HasCoQualifier(text) == Contains(Lower(text), <<"c","o",".">>)

\* C21: _normalize_area removes only a leading "Co." qualifier: for a name
\* without the token "Co." the result is the input with outer whitespace
\* trimmed, inner whitespace collapsed and display casing applied, no letter
\* removed, and normalizing the result again returns it unchanged
C21_OnlyQualifierRemoved ==
    (AreaReturned /\ ~HasCoQualifier(extract.text)) =>
        /\ extract.result = Title(JoinSpace(SplitWhitespace(Strip(extract.text))))
        /\ NormalizeArea(extract.result) = extract.result

(***************************************************************************)
(* scrapers/*.py : one source record parsed into a Listing                 *)
(*                                                                         *)
(* The records carry a title without an area name, so the area extractors  *)
(* return their default "Dublin"; a card without a price element has       *)
(* price 0.                                                                *)
(***************************************************************************)
\* RentIeScraper._extract_property_type
RentIeExtractPropertyType(title, description) ==
    LET text == Lower(title \o <<" ">> \o description)
        has(w) == Contains(text, w)
    IN  IF has(studio) THEN studio
        ELSE IF has(Txt_apartment) \/ has(<<"a","p","t">>) THEN Txt_apartment
        ELSE IF has(<<"h","o","u","s","e">>) THEN <<"h","o","u","s","e">>
        ELSE IF has(<<"f","l","a","t">>) THEN <<"f","l","a","t">>
        ELSE IF has(<<"d","u","p","l","e","x">>) THEN <<"d","u","p","l","e","x">>
        ELSE IF has(<<"r","o","o","m">>) THEN <<"r","o","o","m">>
        ELSE <<>>

\* the bedrooms of RentIeScraper._parse_entry: the extractor's result, with
\* the unknown value -1 replaced by 0
RentIeEntryBedrooms(title, summary) ==
    LET found == ExtractBedrooms(title \o <<" ">> \o summary)
    IN  IF found = -1 THEN 0 ELSE found

\* RentIeScraper._extract_price for a text without a euro sign and without
\* "EUR", "euro", "per month", "p/m", "pcm" and "pm": none of the three
\* patterns matches and the base class method decides
RentIeExtractPrice(title, description) ==
    NormalizePrice(title \o <<" ">> \o description)

\* RentIeScraper._parse_entry for an entry with a link, an id and a title
\* and with neither summary nor tags
RentIeParseEntry(title) ==
    Listing("rent_ie_1", "rent_ie", RentIeExtractPrice(title, <<>>),
            RentIeEntryBedrooms(title, <<>>),
            NormalizeArea(Txt_Dublin), <<>>, RentIeExtractPropertyType(title, <<>>),
            title, <<>>, <<>>, <<"u","3">>)

\* the bedrooms of MyHomeScraper._parse_property_card, from the text of the
\* card's bed element: the extractor's result, -1 replaced by 0
MyHomeCardBedrooms(bed_text) ==
    LET found == ExtractBedrooms(bed_text)
    IN  IF found = -1 THEN 0 ELSE found

\* MyHomeScraper._parse_property_card for a card with a link, an id, a title
\* element and a bed element, and with no price element
MyHomeParsePropertyCard(title, bed_text) ==
    Listing("myhome_1", "myhome", 0, MyHomeCardBedrooms(bed_text),
            NormalizeArea(Txt_Dublin), title, <<>>, title, <<>>, <<>>, <<"u","5">>)

\* the price of DaftScraper._parse_json_listing when data["price"] is a
\* string: _normalize_price, then one more weekly conversion when the string
\* holds "week"
DaftJsonPrice(price_data) ==
    LET normalized == NormalizePrice(price_data)
    IN  IF Contains(Lower(price_data), <<"w","e","e","k">>) /\ normalized > 0
        THEN TimesWeeksPerMonth(normalized)
        ELSE normalized

\* the bedrooms of DaftScraper._parse_json_listing when data["numBedrooms"]
\* is a string: 0 for a studio, else the first run of digits, else 0
DaftJsonBedrooms(bed_data) ==
    IF Contains(Lower(bed_data), studio) THEN 0
    ELSE LET runs == FindAllDigitRuns(bed_data)
         IN  IF runs = <<>> THEN 0 ELSE ToInt(runs[1])

\* DaftScraper.BASE_URL
Txt_DaftBaseUrl == <<"h","t","t","p","s",":","/","/","w","w","w",".","d","a","f","t",".","i","e">>

\* DaftScraper._parse_json_listing for a record with a numeric id, a
\* seoFriendlyPath, and string price and numBedrooms
DaftParseJsonListing(title, price_data, bed_data) ==
    Listing("daft_1", "daft", DaftJsonPrice(price_data), DaftJsonBedrooms(bed_data),
            Txt_Dublin, title, <<>>, title, <<>>, <<>>,
            Txt_DaftBaseUrl \o <<"/","u","1">>)

\* titles and bed texts of the source records
RecordTexts ==
    {l \o n \o <<" ">> \o w :
        l \in BedLeads,
        n \in {<<"2">>, <<>>, <<"t","w","o">>},
        w \in {bed, <<"b","e","d","s","i","t">>, <<"f","l","a","t">>}}

Txt_250PerWeek == <<"euro","2","5","0"," ","p","e","r"," ","w","e","e","k">>

\* data["price"] strings of the Daft records
DaftPriceData == PriceTexts \cup {Txt_250PerWeek}

InitParse ==
    /\ searches \in {<<p>> : p \in RangeProfiles}
    /\ filters = LoadFilters(searches)
    /\ listing = Daft1
    /\ called = <<>>
    /\ match_result = <<>>
    /\ area_result = <<>>
    /\ AggregatorIdle

\* the record parser returned the Listing; extract keeps what the base
\* extractor said about the record's text
Parse(op, text, result, emitted) ==
    /\ extract = <<>>
    /\ extract' = [op |-> op, text |-> text, result |-> result]
    /\ listing' = emitted
    /\ UNCHANGED <<searches, filters, called, match_result, area_result,
                   fetchVars, storeVars, scrape, serverVars>>

CallRentIeParseEntry(title) ==
    Parse("rent_ie._parse_entry", title \o <<" ">>,
          ExtractBedrooms(title \o <<" ">>), RentIeParseEntry(title))

CallMyHomeParsePropertyCard(bed_text) ==
    Parse("myhome._parse_property_card", bed_text,
          ExtractBedrooms(bed_text), MyHomeParsePropertyCard(Txt_MainSt, bed_text))

CallDaftParseJsonListing(price_data) ==
    Parse("daft._parse_json_listing", price_data,
          NormalizePrice(price_data),
          DaftParseJsonListing(Txt_MainSt, price_data, <<"2"," ","b","e","d">>))

\* the emitted Listing reaches SearchFilter.matches
MatchParsed(i) ==
    /\ extract # <<>>
    /\ called = <<>>
    /\ CallMatches(i)

NextParse ==
    \/ \E t \in RecordTexts : CallRentIeParseEntry(t)
    \/ \E t \in RecordTexts : CallMyHomeParsePropertyCard(t)
    \/ \E t \in DaftPriceData : CallDaftParseJsonListing(t)
    \/ \E i \in 1..Len(searches) : MatchParsed(i)

SpecParse == InitParse /\ [][NextParse]_vars

(***************************************************************************)
(* Claims about the parsed records (SpecParse)                             *)
(***************************************************************************)
\* a Rent.ie entry or MyHome card was parsed and no bedroom count could be
\* extracted from it
UnknownBedroomsRecord ==
    /\ extract # <<>>
    /\ extract.op \in {"rent_ie._parse_entry", "myhome._parse_property_card"}
    /\ extract.result = -1

\* C22: for a source record from which no bedroom count can be extracted,
\* the Listing the adapter emits and that reaches SearchFilter.matches
\* carries an unknown-bedrooms value distinct from 0, so no profile rejects
\* it on the bedroom range, in particular one with min_beds >= 1
C22_UnknownBedroomsPreserved ==
    UnknownBedroomsRecord =>
        /\ listing.bedrooms # 0
        /\ ~RejectedBy("bedrooms")

\* a Daft JSON record was parsed whose price string has a weekly qualifier
WeeklyDaftRecord ==
    /\ extract # <<>>
    /\ extract.op = "daft._parse_json_listing"
    /\ \E w \in WeeklyKeywords : Contains(Lower(extract.text), w)

\* C23: the weekly-to-monthly conversion is applied exactly once per
\* listing: for a Daft JSON record whose price is a string with a weekly
\* qualifier, the price of the Listing _parse_json_listing produces equals
\* what _normalize_price returns for that string
C23_WeeklyConvertedOnce ==
    WeeklyDaftRecord => listing.price = extract.result

(***************************************************************************)
(* Claims about duplicates inside one cycle (Spec)                         *)
(***************************************************************************)
\* no value occurs at two positions of the sequence
NoRepeat(seq) == \A i, j \in 1..Len(seq) : seq[i] = seq[j] => i = j

\* the ids of a sequence of listings, in order
IdsOf(listings) == [i \in 1..Len(listings) |-> listings[i].id]

\* the first position of all_listings that carries the id
FirstOccurrence(listings, id) ==
    CHOOSE i \in 1..Len(listings) :
        listings[i].id = id /\ \A j \in 1..(i - 1) : listings[j].id # id

\* the step in which process_new_listings runs its loop and returns
ProcessStep == fetch_pc = "returned" /\ fetch_pc' = "processed"

\* C24: the list process_new_listings returns holds no two listings with
\* the same id, even when fetch_all returned an id several times in the
\* cycle: only the first occurrence is inserted and filtered
C24_FirstOccurrenceOnly ==
    [][ProcessStep =>
          /\ NoRepeat(IdsOf(new_listings'))
          /\ NoRepeat(filtered')
          /\ \A k \in 1..Len(filtered') :
                 ~ListingExists(db_listings, filtered'[k]) =>
                     \E r \in 1..Len(db_listings') :
                         /\ db_listings'[r].id = filtered'[k]
                         /\ db_listings'[r].data =
                                all_listings[FirstOccurrence(all_listings, filtered'[k])]
      ]_vars

\* the part of C24 about the returned list alone: no id twice
C24_NoRepeatedIdReturned ==
    [][ProcessStep => NoRepeat(IdsOf(new_listings')) /\ NoRepeat(filtered')]_vars

(***************************************************************************)
(* Claims about fresh ids and urls (Spec)                                  *)
(***************************************************************************)
\* C25: for every aggregated listing whose id is not yet stored,
\* add_listing stores it and returns True without raising, whatever its
\* url (empty, or equal to the url of a stored listing with another id), so
\* process_new_listings passes every fresh-id listing to the filter
C25_FreshIdStoredAndFiltered ==
    [][ProcessStep =>
          \A k \in 1..Len(all_listings) :
              ~ListingExists(db_listings, all_listings[k].id) =>
                  /\ ListingExists(db_listings', all_listings[k].id)
                  /\ \E f \in 1..Len(filtered') : filtered'[f] = all_listings[k].id
      ]_vars

(***************************************************************************)
(* core/aggregator.py : _build_scraper_config, and the search URL the Daft *)
(* adapter builds from it.  A value that is None or absent in Python is    *)
(* the empty tuple here, a present value v is <<v>>.                       *)
(***************************************************************************)
\* the search criteria of the adapter config when no profile is active
NoHints == [min_price |-> <<>>, max_price |-> <<>>, min_beds |-> <<>>, max_beds |-> <<>>]

\* search.get(key) for max_price and max_beds: None when the profile has no
\* upper bound
UpperBound(v) == IF v = Infinity THEN <<>> ELSE <<v>>

\* ListingAggregator._build_scraper_config: the criteria of the first
\* profile whose "active" is true, the loop breaks there
RECURSIVE BuildScraperConfig(_)
BuildScraperConfig(search_list) ==
    IF search_list = <<>> THEN NoHints
    ELSE IF Head(search_list).active
         THEN [min_price |-> <<Head(search_list).min_price>>,
               max_price |-> UpperBound(Head(search_list).max_price),
               min_beds  |-> <<Head(search_list).min_beds>>,
               max_beds  |-> UpperBound(Head(search_list).max_beds)]
         ELSE BuildScraperConfig(Tail(search_list))

\* "if value:" of Python for an optional number
TruthyNumber(opt) == opt # <<>> /\ opt[1] # 0

\* DaftScraper._build_search_url: the query parameters, in order
DaftBuildSearchUrl(config, page) ==
    (IF TruthyNumber(config.min_price)
        THEN << <<"rentalPrice_from", config.min_price[1]>> >> ELSE <<>>)
    \o (IF TruthyNumber(config.max_price)
        THEN << <<"rentalPrice_to", config.max_price[1]>> >> ELSE <<>>)
    \o (IF config.min_beds # <<>>
        THEN << <<"numBeds_from", config.min_beds[1]>> >> ELSE <<>>)
    \o (IF config.max_beds # <<>>
        THEN << <<"numBeds_to", config.max_beds[1]>> >> ELSE <<>>)
    \o (IF page > 1 THEN << <<"page", page>> >> ELSE <<>>)

\* profiles with disjoint price ranges and different bedroom ranges, and one
\* switched off
HintProfiles ==
    {Profile("cheap", TRUE, 0, 1000, 0, Infinity, <<>>, <<>>, <<>>, <<>>),
     Profile("dear", TRUE, 2000, Infinity, 2, 3, <<>>, <<>>, <<>>, <<>>),
     Profile("off", FALSE, 0, Infinity, 0, Infinity, <<>>, <<>>, <<>>, <<>>)}

HintConfigs == UNION {[1..n -> HintProfiles] : n \in 0..MaxProfiles}

\* ads on the site, each with a known price and bedroom count
HintListings ==
    {Listing("daft_3", "daft", price, beds, Txt_Dublin, Txt_MainSt, Txt_Apartment,
             Txt_Flat, <<>>, <<>>, <<"u","7">>) :
        price \in {500, 1500, 2500}, beds \in {1, 2, 4}}

InitHints ==
    /\ searches \in HintConfigs
    /\ filters = LoadFilters(searches)
    /\ listing \in HintListings
    /\ called = <<>>
    /\ match_result = <<>>
    /\ area_result = <<>>
    /\ AggregatorIdle

\* DaftScraper(_build_scraper_config("daft", ...))._build_search_url(page)
CallDaftBuildSearchUrl(page) ==
    /\ extract = <<>>
    /\ extract' = [op |-> "_build_search_url",
                   text |-> DaftBuildSearchUrl(BuildScraperConfig(searches), page),
                   result |-> BuildScraperConfig(searches)]
    /\ UNCHANGED <<filterVars, fetchVars, storeVars, scrape, serverVars>>

NextHints == \E page \in 1..DaftLastPage : CallDaftBuildSearchUrl(page)

SpecHints == InitHints /\ [][NextHints]_vars

(***************************************************************************)
(* Claims about the search hints (SpecHints)                               *)
(***************************************************************************)
UrlBuilt == extract # <<>> /\ extract.op = "_build_search_url"

\* the ad satisfies every range parameter of the search URL, so a site that
\* honours the parameters lists it
UrlAdmits(params, l) ==
    \A i \in 1..Len(params) :
        CASE params[i][1] = "rentalPrice_from" -> l.price >= params[i][2]
          [] params[i][1] = "rentalPrice_to" -> l.price <= params[i][2]
          [] params[i][1] = "numBeds_from" -> l.bedrooms >= params[i][2]
          [] params[i][1] = "numBeds_to" -> l.bedrooms <= params[i][2]
          [] OTHER -> TRUE

\* C26: the search hints passed to the adapters never exclude a listing
\* that some active profile would accept: with two active profiles of
\* different price or bedroom ranges, a listing that matches only the
\* second profile is still asked for
C26_HintsCoverEveryActiveProfile ==
    UrlBuilt =>
        \A i \in 1..Len(filters) :
            Matches(filters[i], listing).matches => UrlAdmits(extract.text, listing)

(***************************************************************************)
(* The pipeline under run_daemon: the scheduler keeps calling run_once, so *)
(* an enabled step is eventually taken.  The first cycle may fall into     *)
(* quiet hours or meet a failing notifier; every later cycle runs outside  *)
(* quiet hours with send_listing returning True for every listing.         *)
(***************************************************************************)
\* send_listing returns True for every listing of new_listings
AllDelivered == {new_listings[i].id : i \in 1..Len(new_listings)}

\* the notify step of run_once: any outcome in the first cycle, no quiet
\* hours and a working notifier afterwards
RunOnceNotifyLive ==
    IF cycle <= 1
    THEN \E quiet \in BOOLEAN, delivered \in Deliveries : RunOnceNotify(quiet, delivered)
    ELSE RunOnceNotify(FALSE, AllDelivered)

NextLive ==
    \/ /\ fetch_pc = "idle"
       /\ cycle < MaxCycles
       /\ \E b \in BehaviourChoices({1}, FALSE) : FetchAllSubmit(b)
    \/ Tick
    \/ \E s \in Range(scrapers) : TaskCompletes(s)
    \/ \E s \in Range(scrapers) : CollectResult(s)
    \/ FetchAllReturn
    \/ ProcessNewListings
    \/ RunOnceNotifyLive

SpecLive == Init /\ [][NextLive]_vars /\ WF_vars(NextLive)

(***************************************************************************)
(* Claims about notification (SpecLive)                                    *)
(***************************************************************************)
\* the ids the sources serve
SourceIds == {"daft_1", "daft_2", "rent_ie_1", "rent_ie_2", "myhome_1", "myhome_2"}

\* the stored listing has notified_at set
Notified(id) ==
    \E r \in 1..Len(db_listings) :
        db_listings[r].id = id /\ db_listings[r].notified_at = "set"

\* a cycle has ended that returned the listing and left it without
\* notified_at (quiet hours, or send_listing failed), and the scheduler has
\* another cycle to run
LeftUnnotified(id) ==
    /\ fetch_pc = "idle"
    /\ cycle >= 1
    /\ cycle < MaxCycles
    /\ \E k \in 1..Len(new_listings) : new_listings[k].id = id
    /\ ~Notified(id)

\* C27: every listing process_new_listings returned is eventually
\* notified: when its notification was skipped for quiet hours or
\* send_listing failed, a later cycle outside quiet hours with a working
\* notifier sends it and sets notified_at
C27_EventuallyNotified ==
    \A id \in SourceIds : [](LeftUnnotified(id) => <>Notified(id))

(***************************************************************************)
(* server/app.py : POST /email/<listing_id>, served by one thread per      *)
(* request (app.run(threaded=True)); notifications/email_sender.py         *)
(*                                                                         *)
(* A thread can be preempted wherever it waits for the database or the     *)
(* SMTP server, so the handler is a sequence of steps: the read of the     *)
(* listing with the two checks on what was read, the checks of             *)
(* send_inquiry, the SMTP dialogue, the read and the store of              *)
(* sent_count += 1 (no lock guards it), and mark_contacted with the        *)
(* response.  send_alert changes no state.                                 *)
(***************************************************************************)
\* EmailSender.max_per_hour
MaxPerHour == 20

\* most requests received, most reset_rate_limit calls made
MaxRequests == 2

MaxResets == 1

\* the row of a listing stored with a contact address ("" when the dict
\* had none)
ContactRow(l, contact_email) ==
    [id |-> l.id, url |-> l.url, data |-> l, notified_at |-> "set",
     contacted_at |-> "NULL", contact_email |-> contact_email]

\* the listings table the server works on: one listing with a contact
\* address, one without
ServerListings == <<ContactRow(Daft1, "agent@example.ie"), ContactRow(Daft2, "")>>

\* the ids requests name: the two stored ones and one that is not stored
RequestIds == {"daft_1", "daft_2", "daft_404"}

\* get_listing: SELECT * FROM listings WHERE id = ?, <<>> for None
GetListing(db, listing_id) ==
    IF ListingExists(db, listing_id)
    THEN <<db[CHOOSE i \in 1..Len(db) : db[i].id = listing_id]>>
    ELSE <<>>

\* the UPDATE of mark_contacted
MarkContacted(db, listing_id) ==
    [i \in 1..Len(db) |->
        IF db[i].id = listing_id THEN [db[i] EXCEPT !.contacted_at = "set"] ELSE db[i]]

InitServer ==
    /\ searches = <<>>
    /\ filters = LoadFilters(<<>>)
    /\ listing = Daft1
    /\ called = <<>>
    /\ match_result = <<>>
    /\ area_result = <<>>
    /\ scrapers = <<>>
    /\ task = [s \in {} |-> NoTask]
    /\ collected = {}
    /\ clock = 0
    /\ all_listings = <<>>
    /\ fetch_pc = "idle"
    /\ db_listings = ServerListings
    /\ new_listings = <<>>
    /\ new_ids = <<>>
    /\ cycle = 0
    /\ add_log = <<>>
    /\ filtered = <<>>
    /\ stored_before = {}
    /\ refetched = {}
    /\ sent = <<>>
    /\ extract = <<>>
    /\ scrape = <<>>
    /\ email_sender \in {[configured |-> c, sent_count |-> n] :
                            c \in BOOLEAN, n \in {0, MaxPerHour - 1, MaxPerHour}}
    /\ contacts = <<>>
    /\ outbox = <<>>
    /\ window_sent = email_sender.sent_count
    /\ resets = 0
    /\ request = <<>>

\* the frame of every server step
ServerFrame == UNCHANGED <<filterVars, fetchVars, new_listings, new_ids, cycle,
                           add_log, filtered, stored_before, refetched, sent, scrapeVars>>

\* send_email up to the call of send_inquiry: get_listing, 404 when there is
\* no row, 400 when the row read has contacted_at
ReceiveRequest(listing_id) ==
    /\ Len(request) < MaxRequests
    /\ LET row == GetListing(db_listings, listing_id)
           new == [listing_id |-> listing_id, listing |-> row, result |-> "none",
                   loaded |-> 0, pc |-> "done", status |-> 0]
       IN  request' = Append(request,
               IF row = <<>> THEN [new EXCEPT !.status = 404]
               ELSE IF row[1].contacted_at # "NULL" THEN [new EXCEPT !.status = 400]
               ELSE [new EXCEPT !.pc = "send_inquiry"])
    /\ UNCHANGED <<db_listings, email_sender, contacts, outbox, window_sent, resets>>
    /\ ServerFrame

\* send_inquiry up to the SMTP dialogue: credentials, rate limit, recipient
SendInquiryChecks(t) ==
    /\ request[t].pc = "send_inquiry"
    /\ request' = [request EXCEPT ![t] =
           IF ~email_sender.configured
           THEN [@ EXCEPT !.result = "no credentials", !.pc = "respond"]
           ELSE IF email_sender.sent_count >= MaxPerHour
           THEN [@ EXCEPT !.result = "rate limit", !.pc = "respond"]
           ELSE IF request[t].listing[1].contact_email = ""
           THEN [@ EXCEPT !.result = "no contact email", !.pc = "respond"]
           ELSE [@ EXCEPT !.pc = "smtp"]]
    /\ UNCHANGED <<db_listings, email_sender, contacts, outbox, window_sent, resets>>
    /\ ServerFrame

\* the SMTP dialogue of send_inquiry: the server accepts the message, or an
\* exception is caught and send_inquiry returns failure
SmtpSend(t, accepted) ==
    /\ request[t].pc = "smtp"
    /\ IF accepted
       THEN /\ outbox' = Append(outbox, request[t].listing_id)
            /\ window_sent' = window_sent + 1
            /\ request' = [request EXCEPT ![t].pc = "count"]
       ELSE /\ request' = [request EXCEPT ![t].result = "smtp error", ![t].pc = "respond"]
            /\ UNCHANGED <<outbox, window_sent>>
    /\ UNCHANGED <<db_listings, email_sender, contacts, resets>>
    /\ ServerFrame

\* self.sent_count += 1, the load of the attribute
LoadSentCount(t) ==
    /\ request[t].pc = "count"
    /\ request' = [request EXCEPT ![t].loaded = email_sender.sent_count, ![t].pc = "store"]
    /\ UNCHANGED <<db_listings, email_sender, contacts, outbox, window_sent, resets>>
    /\ ServerFrame

\* self.sent_count += 1, the store of the sum; send_inquiry returns success
StoreSentCount(t) ==
    /\ request[t].pc = "store"
    /\ email_sender' = [email_sender EXCEPT !.sent_count = request[t].loaded + 1]
    /\ request' = [request EXCEPT ![t].result = "sent", ![t].pc = "respond"]
    /\ UNCHANGED <<db_listings, contacts, outbox, window_sent, resets>>
    /\ ServerFrame

\* faulty variant of Respond: the listing is marked whatever send_inquiry
\* returned
RespondAlwaysMarks(t) ==
    /\ request[t].pc = "respond"
    /\ db_listings' = MarkContacted(db_listings, request[t].listing_id)
    /\ contacts' = Append(contacts,
                          [listing_id |-> request[t].listing_id,
                           email_to |-> request[t].listing[1].contact_email])
    /\ request' = [request EXCEPT ![t].status = IF request[t].result = "sent" THEN 200 ELSE 500,
                                  ![t].pc = "done"]
    /\ UNCHANGED <<email_sender, outbox, window_sent, resets>>
    /\ ServerFrame

\* send_email after send_inquiry returned: on success mark_contacted (the
\* UPDATE and the INSERT commit together) and 200, else 500
Respond(t) ==
    /\ request[t].pc = "respond"
    /\ IF request[t].result = "sent"
       THEN /\ db_listings' = MarkContacted(db_listings, request[t].listing_id)
            /\ contacts' = Append(contacts,
                                  [listing_id |-> request[t].listing_id,
                                   email_to |-> request[t].listing[1].contact_email])
            /\ request' = [request EXCEPT ![t].status = 200, ![t].pc = "done"]
       ELSE /\ request' = [request EXCEPT ![t].status = 500, ![t].pc = "done"]
            /\ UNCHANGED <<db_listings, contacts>>
    /\ UNCHANGED <<email_sender, outbox, window_sent, resets>>
    /\ ServerFrame

\* EmailSender.reset_rate_limit, called by the scheduler once per hour
ResetRateLimit ==
    /\ resets < MaxResets
    /\ email_sender' = [email_sender EXCEPT !.sent_count = 0]
    /\ window_sent' = 0
    /\ resets' = resets + 1
    /\ UNCHANGED <<db_listings, contacts, outbox, request>>
    /\ ServerFrame

NextServer ==
    \/ \E id \in RequestIds : ReceiveRequest(id)
    \/ \E t \in 1..Len(request) : SendInquiryChecks(t)
    \/ \E t \in 1..Len(request), accepted \in BOOLEAN : SmtpSend(t, accepted)
    \/ \E t \in 1..Len(request) : LoadSentCount(t)
    \/ \E t \in 1..Len(request) : StoreSentCount(t)
    \/ \E t \in 1..Len(request) : Respond(t)
    \/ ResetRateLimit

SpecServer == InitServer /\ [][NextServer]_vars

\* number of entries of a sequence that satisfy Test
CountIn(seq, Test(_)) == Cardinality({i \in 1..Len(seq) : Test(seq[i])})

\* requests for the listing whose send_inquiry succeeded
Succeeded(listing_id) ==
    {t \in 1..Len(request) : request[t].listing_id = listing_id /\ request[t].result = "sent"}

\* C28: at most one inquiry email is sent per listing under any interleaving
\* of concurrent requests for it: send_inquiry succeeds for at most one
\* request, at most one message leaves, and the contacts table holds at most
\* one row for the listing.
C28_AtMostOneInquiryPerListing ==
    \A id \in RequestIds :
        /\ Cardinality(Succeeded(id)) <= 1
        /\ CountIn(outbox, LAMBDA sent_id : sent_id = id) <= 1
        /\ CountIn(contacts, LAMBDA row : row.listing_id = id) <= 1

\* C29: between two calls of reset_rate_limit at most max_per_hour inquiry
\* emails are sent and sent_count never exceeds max_per_hour, under any
\* interleaving of concurrent send_inquiry calls.
C29_RateLimitNeverExceeded ==
    /\ window_sent <= MaxPerHour
    /\ email_sender.sent_count <= MaxPerHour

\* C29, the last clause (it holds): a send_inquiry call with credentials that
\* makes its checks while sent_count is max_per_hour returns the rate-limit
\* failure, and nothing is sent by that step.
C29_AtLimitRefused ==
    [][\A t \in 1..Len(request) :
          (/\ request[t].pc = "send_inquiry"
           /\ request'[t].pc # "send_inquiry"
           /\ email_sender.configured
           /\ email_sender.sent_count >= MaxPerHour)
          => request'[t].result = "rate limit" /\ outbox' = outbox]_vars

\* the requests answered by this step
Answered(t) ==
    /\ request'[t].status # 0
    /\ t <= Len(request) => request[t].status = 0

\* C30: contacted_at is set and a contacts row is added only by the step of
\* a request whose send_inquiry reported success; a step that answers 404,
\* 400 or 500 leaves the listings and the contacts tables unchanged.
C30_MarkedOnlyAfterSuccess ==
    [][/\ (db_listings' # db_listings \/ contacts' # contacts)
          => \E t \in 1..Len(request) :
                /\ request[t].result = "sent"
                /\ request'[t].status = 200
                /\ Answered(t)
       /\ \A t \in 1..Len(request') :
             (Answered(t) /\ request'[t].status \in {404, 400, 500})
             => UNCHANGED <<db_listings, contacts>>]_vars

\* C30 witness: an inquiry failed with 500 and left the listing unmarked; a
\* later request for the same listing was sent and answered 200, and the
\* listing is marked with one contacts row.
C30_Witness ==
    /\ Len(request) = 2
    /\ request[1].listing_id = "daft_1" /\ request[2].listing_id = "daft_1"
    /\ request[1].status = 500 /\ request[1].result = "smtp error"
    /\ request[2].status = 200
    /\ Len(request[2].listing) = 1 /\ request[2].listing[1].contacted_at = "NULL"
    /\ db_listings[1].contacted_at = "set"
    /\ Len(contacts) = 1

====
